---- MODULE Spec2Model ----
(***************************************************************************)
(* Affix slot constraint engine (composables/useAffixSlots.js) and the     *)
(* rule-line compiler (helpers/generateRowPreviewLines.js) of the          *)
(* exiledbot2 pickit configurator.                                         *)
(*                                                                         *)
(* Conventions                                                             *)
(*  - Slot indices passed to operators are the 0-based indices of the      *)
(*    JavaScript code; the slot with JS index i is slots[i + 1].           *)
(*  - JavaScript values that may be null, undefined, NaN or a string where *)
(*    a number is expected are records [t, n]: t is the JS type tag and n  *)
(*    the numeric value (meaningful for "number" and "numstr" only).       *)
(*  - A slot's selectedAffixKey is a string; JS null is NullKey.           *)
(*  - The id of a slot (a random UUID, used as the render key only) is not *)
(*    part of the state.                                                   *)
(*  - The operators that search the catalog take the keys of its entries   *)
(*    (catalogKeys) as their first argument keys, so that one use builds   *)
(*    the key strings once; the code builds them again in every search.    *)
(*  - One action is one event-loop tick: the event handler followed by the *)
(*    flush of the pre-render watcher it triggered (Vue runs queued        *)
(*    watcher jobs in a microtask, before the next event is dispatched).   *)
(***************************************************************************)
EXTENDS Integers, Sequences, FiniteSets, TLC

VARIABLES
    options,    \* the maxSlots, maxPrefixes and maxSuffixes handed to useAffixSlots
    affixes,    \* affixesRef.value: the catalog handed to the composable
    slots,      \* slots.value: sequence of AffixSlot
    params,     \* the fields of the argument of generateRowPreviewLines that
                \* are not the slots or the catalog lookups
    lines,      \* what the last call of generateRowPreviewLines returned
    aggregated, \* what the last call of collectOrderedStatsAndTotals returned
    rankArgs,   \* the arguments tiers and tierLevel of tierIndexFromBottom
    rankResult, \* what the last call of tierIndexFromBottom returned
    keyArgs,    \* two arguments of affixKey
    keyResult,  \* what the calls of affixKey on the two arguments returned
    outcome,    \* how the last call of an operation ended: it returned or it
                \* threw a TypeError
    availableItems,       \* Row.vue: availableItems.value (itemsStore.items.value)
    selectedConfigType,   \* Row.vue: selectedConfigType.value
    selectedItemSlug,     \* Row.vue: selectedItemSlug.value
    isLoadingAffixes,     \* Row.vue: isLoadingAffixes.value
    pendingLoad,          \* the slug of the getAffixesForSlug call that the row
                          \* awaits, NoLoad when it awaits none
    affixesBySlugCache,   \* itemsStore.js: affixesBySlugCache, slug -> affixes
    effectQueued,         \* the watchEffect of the row is queued for the flush
    rowLinesById,         \* Configurator.vue: rowLinesById.value
    finalText,            \* Configurator.vue: finalText.value
    rows,                 \* Configurator.vue: rows.value, as the list of the row ids
    storeCalls            \* itemsStore.js: the calls of getAffixesForSlug so far

slotVars == <<options, affixes, slots>>
compilerVars == <<params, lines, aggregated>>
rankVars == <<rankArgs, rankResult>>
keyVars == <<keyArgs, keyResult>>
rowVars == <<availableItems, selectedConfigType, selectedItemSlug, isLoadingAffixes, pendingLoad,
             affixesBySlugCache, effectQueued, rowLinesById, finalText, rows, storeCalls>>
vars == <<options, affixes, slots, params, lines, aggregated, rankArgs, rankResult, keyArgs, keyResult,
          outcome, availableItems,
          selectedConfigType, selectedItemSlug, isLoadingAffixes, pendingLoad,
          affixesBySlugCache, effectQueued, rowLinesById, finalText, rows, storeCalls>>

-----------------------------------------------------------------------------
(* JavaScript values *)

JsNull == [t |-> "null", n |-> 0]
JsUndefined == [t |-> "undefined", n |-> 0]
JsNaN == [t |-> "nan", n |-> 0]
JsNum(n) == [t |-> "number", n |-> n]
JsNumStr(n) == [t |-> "numstr", n |-> n]
JsString(s) == [t |-> "string", s |-> s]
JsArray(a) == [t |-> "array", a |-> a]

\* Number.isFinite(v): true only for a value of type number that is finite
NumberIsFinite(v) == v.t = "number"

\* Number(v): numbers stay, numeric strings are parsed, null is 0,
\* undefined (a missing field) and everything else is NaN
ToNumber(v) ==
    CASE v.t = "number" -> v
      [] v.t = "numstr" -> JsNum(v.n)
      [] v.t = "null" -> JsNum(0)
      [] OTHER -> JsNaN

\* A Number is an IEEE 754 double: the sum of two Numbers is the exact sum
\* rounded to the nearest Number with a significand of 53 bits, a tie going
\* to the even significand. The model keeps SignificandBits bits.
SignificandBits == 8

RECURSIVE Pow2(_)
Pow2(e) == IF e = 0 THEN 1 ELSE 2 * Pow2(e - 1)

\* the distance between two neighbouring numbers of a significand of
\* bits bits at the magnitude m
RECURSIVE unitInLastPlace(_, _)
unitInLastPlace(bits, m) ==
    IF m < Pow2(bits) THEN 1 ELSE 2 * unitInLastPlace(bits, m \div 2)

\* the nearest number of that significand, ties to the even significand
roundToNearestEven(bits, m) ==
    LET unit == unitInLastPlace(bits, m)
        below == m \div unit
        rest == m % unit
    IN IF 2 * rest < unit THEN below * unit
       ELSE IF 2 * rest > unit THEN (below + 1) * unit
       ELSE IF below % 2 = 0 THEN below * unit
       ELSE (below + 1) * unit

\* a sum that keeps half of the significand
jsAdd_HalfSignificand(a, b) ==
    LET exact == a + b
    IN IF exact < 0 THEN 0 - roundToNearestEven(SignificandBits \div 2, 0 - exact)
       ELSE roundToNearestEven(SignificandBits \div 2, exact)

\* a + b on two Numbers
jsAdd(a, b) ==
    LET exact == a + b
    IN IF exact < 0 THEN 0 - roundToNearestEven(SignificandBits, 0 - exact)
       ELSE roundToNearestEven(SignificandBits, exact)

\* String.prototype.trim on the strings the catalogs of this model use
Trim(s) ==
    CASE s = " life " -> "life"
      [] s = "  " -> ""
      [] s = " StashUnid " -> "StashUnid"
      [] s = " Ring " -> "Ring"
      [] OTHER -> s

NullKey == "<null>"
NullIndex == 0 - 1

-----------------------------------------------------------------------------
(* Configuration of useAffixSlots *)

\* an options object without the catalog: its fields are JS values
Options(maxSlots, maxPrefixes, maxSuffixes) ==
    [maxSlots |-> maxSlots, maxPrefixes |-> maxPrefixes, maxSuffixes |-> maxSuffixes]

\* what Row.vue passes
RowOptions == Options(JsNum(6), JsNum(3), JsNum(3))

maxAffixSlots == IF NumberIsFinite(options.maxSlots) THEN options.maxSlots.n ELSE 6
maxPrefixesAllowed == IF NumberIsFinite(options.maxPrefixes) THEN options.maxPrefixes.n ELSE 3
maxSuffixesAllowed == IF NumberIsFinite(options.maxSuffixes) THEN options.maxSuffixes.n ELSE 3

-----------------------------------------------------------------------------
(* Catalog entries *)

Stat(id, min, max) == [id |-> id, min |-> min, max |-> max]
Tier(level, stats) == [level |-> JsNum(level), stats |-> stats]
Affix(kind, family, template, tiers) ==
    [kind |-> kind, domain |-> "item", family_key |-> family,
     identifier |-> "", template |-> template, tiers |-> tiers]

PrefixLife ==
    Affix("prefix", "life", "+# to maximum Life",
          << Tier(1, << Stat("life", JsNum(10), JsNum(20)) >>),
             Tier(3, << Stat("life", JsNum(20), JsNum(30)),
                        Stat("mana", JsNum(1), JsNum(2)),
                        Stat(" life ", JsNum(1), JsNum(1)) >>) >>)

\* the tier carries an entry with a blank id and an entry without min
PrefixMana ==
    Affix("prefix", "mana", "+# to maximum Mana",
          << Tier(2, << Stat("mana", JsNum(3), JsNum(7)),
                        Stat("  ", JsNum(1), JsNum(2)),
                        Stat("mana", JsUndefined, JsNum(9)),
                        Stat("life", JsNum(2), JsNum(4)) >>) >>)

SuffixRes ==
    Affix("suffix", "res", "+#% to Fire Resistance", << >>)

OtherImplicit ==
    Affix("implicit", "imp", "Implicit modifier", << >>)

AffixPool == << PrefixLife, PrefixMana, SuffixRes, OtherImplicit >>

\* Largest catalog the model loads
MaxCatalog == 2

\* The catalogs: every contiguous window of the pool of at most MaxCatalog
\* entries, the empty catalog included
Catalogs ==
    { SubSeq(AffixPool, w[1], w[2]) :
        w \in { v \in (1..Len(AffixPool)) \X (0..Len(AffixPool)) :
                  v[2] - v[1] + 1 \in 0..MaxCatalog } }

-----------------------------------------------------------------------------
(* useAffixSlots: state and helpers *)

createEmptySlot == [selectedAffixKey |-> NullKey, selectedTierLevel |-> JsNull]

\* the argument is not an object: it is one of the tagged values (null,
\* undefined, a number, a string); an object is a record of its fields
notAnObject(affixFamily) == "t" \in DOMAIN affixFamily

\* the identifier is left out of the key
stringField_DropsIdentifier(affixFamily, name) ==
    IF name = "identifier" THEN ""
    ELSE IF name \in DOMAIN affixFamily THEN affixFamily[name] ELSE ""

\* typeof affixFamily[name] === "string" ? affixFamily[name] : "".  A field
\* of an object is a string or is left out of the record: typeof tells a
\* missing field and a field of another type from a string in the same way.
stringField(affixFamily, name) ==
    IF name \in DOMAIN affixFamily THEN affixFamily[name] ELSE ""

\* affixKey with the empty string for what is not an object
affixKey_NoSentinel(affixFamily) ==
    IF notAnObject(affixFamily) THEN ""
    ELSE
    stringField(affixFamily, "kind") \o "|" \o stringField(affixFamily, "domain") \o "|" \o
    stringField(affixFamily, "family_key") \o "|" \o
    stringField(affixFamily, "identifier") \o "|" \o stringField(affixFamily, "template")

affixKey(affixFamily) ==
    IF notAnObject(affixFamily) THEN "||||"
    ELSE
    stringField(affixFamily, "kind") \o "|" \o stringField(affixFamily, "domain") \o "|" \o
    stringField(affixFamily, "family_key") \o "|" \o
    stringField(affixFamily, "identifier") \o "|" \o stringField(affixFamily, "template")

\* affixKey of every entry of a list of catalog entries, in the order of the list
RECURSIVE keysOf(_)
keysOf(affixFamilies) ==
    IF affixFamilies = << >> THEN << >>
    ELSE << affixKey(Head(affixFamilies)) >> \o keysOf(Tail(affixFamilies))

\* the keys of the entries of the catalog
catalogKeys == keysOf(affixes)

\* Array.prototype.find: the first entry whose key matches, JsNull when the
\* key is null or nothing matches
findAffixByKey(keys, key) ==
    IF key = NullKey THEN JsNull
    ELSE LET matches == { j \in 1..Len(affixes) : keys[j] = key }
         IN IF matches = {} THEN JsNull
            ELSE affixes[CHOOSE j \in matches : \A k \in matches : j <= k]

kindOfSelectedKey(keys, key) ==
    LET selectedAffixFamily == findAffixByKey(keys, key)
    IN IF selectedAffixFamily # JsNull THEN selectedAffixFamily.kind ELSE ""

Min(a, b) == IF a <= b THEN a ELSE b

\* the elements of a list
Range(list) == { list[i] : i \in 1..Len(list) }

\* excludedKeysForSlot with the loop stopping one slot early
excludedKeysForSlot_SkipsNearest(slotIndex) ==
    LET earlierSlotsEnd == Min(slotIndex, Len(slots)) - 1
    IN { slots[i + 1].selectedAffixKey : i \in 0..(earlierSlotsEnd - 1) }
         \ { NullKey }

\* every other slot excludes its key, the later slots too
excludedKeysForSlot_AllOtherSlots(slotIndex) ==
    { slots[i + 1].selectedAffixKey : i \in (0..(Len(slots) - 1)) \ { slotIndex } }
         \ { NullKey }

\* keys selected in the slots with JS index < slotIndex
excludedKeysForSlot(slotIndex) ==
    LET earlierSlotsEnd == Min(slotIndex, Len(slots))
    IN { slots[i + 1].selectedAffixKey : i \in 0..(earlierSlotsEnd - 1) }
         \ { NullKey }

countSelectedKinds(keys, exceptSlotIndex) ==
    LET counted(kind) ==
            Cardinality({ i \in 0..(Len(slots) - 1) :
                /\ ~(exceptSlotIndex # NullIndex /\ i = exceptSlotIndex)
                /\ slots[i + 1].selectedAffixKey # NullKey
                /\ kindOfSelectedKey(keys, slots[i + 1].selectedAffixKey) = kind })
    IN [prefixes |-> counted("prefix"), suffixes |-> counted("suffix")]

prefixCount == countSelectedKinds(catalogKeys, NullIndex).prefixes
suffixCount == countSelectedKinds(catalogKeys, NullIndex).suffixes

\* slots.value[slotIndex]?.selectedAffixKey || null
selectedKeyAt(slotIndex) ==
    IF slotIndex \in 0..(Len(slots) - 1)
    THEN slots[slotIndex + 1].selectedAffixKey ELSE NullKey

\* canSelectPrefix without the cap
canSelectPrefix_NoCap(countsExcludingCurrent, currentSelectedKind) == TRUE

\* groupsForSlot, lines 206-209: may the slot take a prefix (a suffix)?  The
\* counts leave the slot itself out.
canSelectPrefix(countsExcludingCurrent, currentSelectedKind) ==
    \/ countsExcludingCurrent.prefixes < maxPrefixesAllowed
    \/ currentSelectedKind = "prefix"

\* canSelectSuffix with <= in place of <
canSelectSuffix_OffByOne(countsExcludingCurrent, currentSelectedKind) ==
    \/ countsExcludingCurrent.suffixes <= maxSuffixesAllowed
    \/ currentSelectedKind = "suffix"

canSelectSuffix(countsExcludingCurrent, currentSelectedKind) ==
    \/ countsExcludingCurrent.suffixes < maxSuffixesAllowed
    \/ currentSelectedKind = "suffix"

\* keepAffixFamily without the rule that keeps the slot's own selection
keepAffixFamily_HidesCurrent(key, kind, currentSelectedKey, excludedKeys, mayPrefix, maySuffix) ==
    IF key \in excludedKeys THEN FALSE
    ELSE IF kind = "prefix" /\ ~mayPrefix THEN FALSE
    ELSE IF kind = "suffix" /\ ~maySuffix THEN FALSE
    ELSE TRUE

\* groupsForSlot, lines 215-225: the predicate of the filter on an entry with
\* the key and the kind of lines 212-213, given the values computed before
\* the filter runs
keepAffixFamily(key, kind, currentSelectedKey, excludedKeys, mayPrefix, maySuffix) ==
    IF currentSelectedKey # NullKey /\ key = currentSelectedKey THEN TRUE
    ELSE IF key \in excludedKeys THEN FALSE
    ELSE IF kind = "prefix" /\ ~mayPrefix THEN FALSE
    ELSE IF kind = "suffix" /\ ~maySuffix THEN FALSE
    ELSE TRUE

\* groupsForSlot, lines 198-226: the positions in the catalog of the entries
\* the filter keeps for the slot
filteredIndices(keys, slotIndex) ==
    LET excludedKeys == excludedKeysForSlot(slotIndex)
        countsExcludingCurrent == countSelectedKinds(keys, slotIndex)
        currentSelectedKey == selectedKeyAt(slotIndex)
        currentSelectedKind ==
            IF currentSelectedKey # NullKey
            THEN kindOfSelectedKey(keys, currentSelectedKey) ELSE ""
        mayPrefix == canSelectPrefix(countsExcludingCurrent, currentSelectedKind)
        maySuffix == canSelectSuffix(countsExcludingCurrent, currentSelectedKind)
    IN { j \in 1..Len(affixes) :
           keepAffixFamily(keys[j], affixes[j].kind, currentSelectedKey, excludedKeys,
                           mayPrefix, maySuffix) }

\* the catalog entries offered to the slot, in catalog order
filteredAffixFamilies(slotIndex) ==
    LET kept == filteredIndices(catalogKeys, slotIndex)
        taken[j \in 0..Len(affixes)] ==
            IF j = 0 THEN << >>
            ELSE IF j \in kept THEN Append(taken[j - 1], affixes[j]) ELSE taken[j - 1]
    IN taken[Len(affixes)]

\* The optgroups of one slot, empty groups omitted.  The order of the items
\* inside a group (localeCompare on the template) is not represented: items
\* stay in catalog order.
groupsForSlot(slotIndex) ==
    LET filtered == filteredAffixFamilies(slotIndex)
        isPrefix(a) == a.kind = "prefix"
        isSuffix(a) == a.kind = "suffix"
        isOther(a) == a.kind # "prefix" /\ a.kind # "suffix"
        prefixAffixes == SelectSeq(filtered, isPrefix)
        suffixAffixes == SelectSeq(filtered, isSuffix)
        otherAffixes == SelectSeq(filtered, isOther)
        group(label, items) ==
            IF Len(items) > 0 THEN << [label |-> label, items |-> items] >> ELSE << >>
    IN group("-- Prefixes --", prefixAffixes)
         \o group("-- Suffixes --", suffixAffixes)
         \o group("-- Other --", otherAffixes)

\* The <option> values rendered for the affix dropdown of one slot: the keys
\* of the items of its optgroups, which between them hold every entry the
\* filter keeps.
optionKeys(slotIndex) ==
    LET keys == catalogKeys
    IN { keys[j] : j \in filteredIndices(keys, slotIndex) }

RECURSIVE totalOptions(_)
totalOptions(optGroups) ==
    IF optGroups = << >> THEN 0
    ELSE Len(Head(optGroups).items) + totalOptions(Tail(optGroups))

\* canAddSlot that does not look at the options of the next slot
canAddSlot_IgnoresOptions ==
    IF Len(slots) >= maxAffixSlots THEN FALSE
    ELSE Len(affixes) > 0

canAddSlot ==
    IF Len(slots) >= maxAffixSlots THEN FALSE
    ELSE IF Len(affixes) = 0 THEN FALSE
    ELSE totalOptions(groupsForSlot(Len(slots))) > 0

\* the check of the kind caps ahead of the check of the slot cap
addDisabledReason_CapsFirst ==
    IF prefixCount >= maxPrefixesAllowed /\ suffixCount >= maxSuffixesAllowed
    THEN "Prefix/Suffix caps reached (" \o ToString(maxPrefixesAllowed)
           \o "/" \o ToString(maxSuffixesAllowed) \o ")."
    ELSE IF Len(slots) >= maxAffixSlots THEN "Max " \o ToString(maxAffixSlots) \o " affixes."
    ELSE IF Len(affixes) = 0 THEN "No affixes available."
    ELSE "No valid affixes left to add."

addDisabledReason ==
    IF Len(slots) >= maxAffixSlots THEN "Max " \o ToString(maxAffixSlots) \o " affixes."
    ELSE IF Len(affixes) = 0 THEN "No affixes available."
    ELSE IF prefixCount >= maxPrefixesAllowed /\ suffixCount >= maxSuffixesAllowed
         THEN "Prefix/Suffix caps reached (" \o ToString(maxPrefixesAllowed)
                \o "/" \o ToString(maxSuffixesAllowed) \o ")."
    ELSE "No valid affixes left to add."

availableTiersForSlot(keys, slotIndex) ==
    LET selectedKey == selectedKeyAt(slotIndex)
    IN IF selectedKey = NullKey THEN << >>
       ELSE LET selectedAffixFamily == findAffixByKey(keys, selectedKey)
            IN IF selectedAffixFamily = JsNull THEN << >>
               ELSE selectedAffixFamily.tiers

\* the selectedAffixKey of every slot, as the watcher's getter maps them
selectedKeys(slotList) ==
    [i \in 1..Len(slotList) |-> slotList[i].selectedAffixKey]

\* a watcher that never clears a tier
watchSelectedKeys_NeverClears(nextSlots, previousKeys) == nextSlots

\* a watcher that clears the tier only when the slot had a key before
watchSelectedKeys_OnlyFromSelected(nextSlots, previousKeys) ==
    LET nextKeys == selectedKeys(nextSlots)
        previousAt(i) == IF i <= Len(previousKeys) THEN previousKeys[i] ELSE NullKey
    IN [i \in 1..Len(nextSlots) |->
          IF nextKeys[i] # previousAt(i) /\ previousAt(i) = NullKey
          THEN [nextSlots[i] EXCEPT !.selectedTierLevel = JsNull]
          ELSE nextSlots[i]]

\* The watcher on the list of selected keys, run on the slots an operation
\* left behind with the key list of its previous run: the tier of every
\* position whose key differs is cleared.
watchSelectedKeys(nextSlots, previousKeys) ==
    LET nextKeys == selectedKeys(nextSlots)
        previousAt(i) == IF i <= Len(previousKeys) THEN previousKeys[i] ELSE NullKey
    IN [i \in 1..Len(nextSlots) |->
          IF nextKeys[i] # previousAt(i)
          THEN [nextSlots[i] EXCEPT !.selectedTierLevel = JsNull]
          ELSE nextSlots[i]]

-----------------------------------------------------------------------------
(* generateRowPreviewLines.js: stat aggregation and the after-identify clause *)

\* totals that keep the bounds of the last entry instead of the sum
addToTotals_Replaces(totalsById, statId, minValue, maxValue) ==
    IF statId \in DOMAIN totalsById
    THEN [totalsById EXCEPT ![statId] = [id |-> statId, min |-> minValue, max |-> maxValue]]
    ELSE totalsById @@ (statId :> [id |-> statId, min |-> minValue, max |-> maxValue])

\* the totals Map with one more entry, or with the entry of statId raised
addToTotals(totalsById, statId, minValue, maxValue) ==
    IF statId \in DOMAIN totalsById
    THEN [totalsById EXCEPT ![statId] =
             [id |-> statId, min |-> jsAdd(@.min, minValue), max |-> jsAdd(@.max, maxValue)]]
    ELSE totalsById @@ (statId :> [id |-> statId, min |-> minValue, max |-> maxValue])

\* the loop over the stats of the selected tier, from entry k on
RECURSIVE collectTierStats(_, _, _, _)
collectTierStats(tierStats, k, statIdsInThisSlot, totalsById) ==
    IF k > Len(tierStats)
    THEN [statIdsInThisSlot |-> statIdsInThisSlot, totalsById |-> totalsById]
    ELSE LET stat == tierStats[k]
             statId == IF "id" \in DOMAIN stat THEN Trim(stat.id) ELSE ""
             minValue == ToNumber(stat.min)
             maxValue == ToNumber(stat.max)
         IN IF statId = ""
            THEN collectTierStats(tierStats, k + 1, statIdsInThisSlot, totalsById)
            ELSE IF ~NumberIsFinite(minValue) \/ ~NumberIsFinite(maxValue)
            THEN collectTierStats(tierStats, k + 1, statIdsInThisSlot, totalsById)
            ELSE collectTierStats(tierStats, k + 1,
                     Append(statIdsInThisSlot, statId),
                     addToTotals(totalsById, statId, minValue.n, maxValue.n))

\* tiers.find(t => Number.isFinite(t?.level) && t.level === selectedTierLevel):
\* the index of the first such tier, 0 when there is none
findTierIndex(tiers, selectedTierLevel) ==
    LET matches == { t \in 1..Len(tiers) :
                        NumberIsFinite(tiers[t].level) /\ tiers[t].level = selectedTierLevel }
    IN IF matches = {} THEN 0
       ELSE CHOOSE t \in matches : \A u \in matches : t <= u

\* the loop over the slots, from JS index slotIndex on
RECURSIVE collectFromSlot(_, _, _, _, _)
collectFromSlot(keys, affixSlots, slotIndex, orderedSlots, totalsById) ==
    IF slotIndex >= Len(affixSlots)
    THEN [orderedSlots |-> orderedSlots, totalsById |-> totalsById]
    ELSE LET slot == affixSlots[slotIndex + 1]
             selectedAffixKey == slot.selectedAffixKey
             selectedTierLevel == slot.selectedTierLevel
             skip == collectFromSlot(keys, affixSlots, slotIndex + 1,
                                     Append(orderedSlots, << >>), totalsById)
         IN IF selectedAffixKey = NullKey \/ ~NumberIsFinite(selectedTierLevel) THEN skip
            ELSE IF findAffixByKey(keys, selectedAffixKey) = JsNull THEN skip
            ELSE LET tiers == availableTiersForSlot(keys, slotIndex)
                     selectedTier == findTierIndex(tiers, selectedTierLevel)
                 IN IF selectedTier = 0 THEN skip
                    ELSE LET collected == collectTierStats(tiers[selectedTier].stats, 1,
                                                           << >>, totalsById)
                         IN collectFromSlot(keys, affixSlots, slotIndex + 1,
                                Append(orderedSlots, collected.statIdsInThisSlot),
                                collected.totalsById)

\* the slots without a selection leave no list behind
collectOrderedStatsAndTotals_NoEmptyLists(affixSlots) ==
    LET all == collectFromSlot(catalogKeys, affixSlots, 0, << >>, << >>)
        hasIds(statIds) == statIds # << >>
    IN [orderedSlots |-> SelectSeq(all.orderedSlots, hasIds), totalsById |-> all.totalsById]

collectOrderedStatsAndTotals(affixSlots) ==
    collectFromSlot(catalogKeys, affixSlots, 0, << >>, << >>)

\* the totals are written into the stats of the catalog that carry their id
catalogAfterAggregation_SharedTotals(affixSlots) ==
    LET totalsById == collectOrderedStatsAndTotals(affixSlots).totalsById
        idOf(stat) == IF "id" \in DOMAIN stat THEN Trim(stat.id) ELSE ""
        shared(stat) ==
            IF idOf(stat) \in DOMAIN totalsById
            THEN [stat EXCEPT !.min = JsNum(totalsById[idOf(stat)].min),
                              !.max = JsNum(totalsById[idOf(stat)].max)]
            ELSE stat
        sharedTier(tier) ==
            [tier EXCEPT !.stats = [k \in DOMAIN tier.stats |-> shared(tier.stats[k])]]
        sharedAffix(affixFamily) ==
            [affixFamily EXCEPT !.tiers =
                [t \in DOMAIN affixFamily.tiers |-> sharedTier(affixFamily.tiers[t])]]
    IN [a \in DOMAIN affixes |-> sharedAffix(affixes[a])]

\* the catalog after a call of collectOrderedStatsAndTotals: an entry of
\* totalsById is the object {id, min, max} made by totalsById.set, so that
\* existing.min += minValue and existing.max += maxValue write to no stat of
\* the catalog; the function assigns to nothing else that outlives the call
catalogAfterAggregation(affixSlots) == affixes

\* `${statId} >= "${minValue}"` and `${statId} <= "${maxValue}"`
lowerBoundCondition(statId, minValue) == statId \o " >= \"" \o ToString(minValue) \o "\""
upperBoundCondition(statId, maxValue) == statId \o " <= \"" \o ToString(maxValue) \o "\""

\* the ids of all slots in one list, slot after slot
RECURSIVE flattenSlots(_)
flattenSlots(orderedSlots) ==
    IF orderedSlots = << >> THEN << >>
    ELSE Head(orderedSlots) \o flattenSlots(Tail(orderedSlots))

\* the nested loop of buildAfterIdentifyStatConditionsInSlotOrder over the
\* ids still to visit
RECURSIVE emitConditions(_, _, _, _)
emitConditions(statIds, totalsById, emitted, conditions) ==
    IF statIds = << >> THEN conditions
    ELSE LET statId == Head(statIds)
         IN IF statId = "" \/ statId \in emitted
            THEN emitConditions(Tail(statIds), totalsById, emitted, conditions)
            ELSE IF statId \notin DOMAIN totalsById
            THEN emitConditions(Tail(statIds), totalsById, emitted, conditions)
            ELSE emitConditions(Tail(statIds), totalsById, emitted \cup {statId},
                     conditions \o << lowerBoundCondition(statId, totalsById[statId].min),
                                      upperBoundCondition(statId, totalsById[statId].max) >>)

buildAfterIdentifyStatConditionsInSlotOrder(orderedSlots, totalsById) ==
    emitConditions(flattenSlots(orderedSlots), totalsById, {}, << >>)

AllowedActionFlags == {"StashItem", "StashUnid", "Salvage", "IgnoreRitual"}

\* every non-empty flag passes
resolvePickitActionFlag_PassesThrough(raw) ==
    LET actionFlag == IF raw.t = "string" THEN Trim(raw.s) ELSE ""
    IN IF actionFlag = "" THEN "StashItem" ELSE actionFlag

resolvePickitActionFlag(raw) ==
    LET actionFlag == IF raw.t = "string" THEN Trim(raw.s) ELSE ""
    IN IF actionFlag = "" THEN "StashItem"
       ELSE IF actionFlag \in AllowedActionFlags THEN actionFlag ELSE "StashItem"

\* the action flag condition first
afterConditions_FlagFirst(affixSlots, rawActionFlag) ==
    LET collected == collectOrderedStatsAndTotals(affixSlots)
        statConditions == buildAfterIdentifyStatConditionsInSlotOrder(
                              collected.orderedSlots, collected.totalsById)
    IN << "[" \o resolvePickitActionFlag(rawActionFlag) \o "] == \"true\"" >> \o
       statConditions

\* generateRowPreviewLines, lines 203-218: the conditions of the after-identify
\* clause, the action flag last
afterConditions(affixSlots, rawActionFlag) ==
    LET collected == collectOrderedStatsAndTotals(affixSlots)
        statConditions == buildAfterIdentifyStatConditionsInSlotOrder(
                              collected.orderedSlots, collected.totalsById)
    IN Append(statConditions,
              "[" \o resolvePickitActionFlag(rawActionFlag) \o "] == \"true\"")

-----------------------------------------------------------------------------
(* tiers.js *)

\* the place of x in an ascending list
RECURSIVE insertAscending(_, _)
insertAscending(sorted, x) ==
    IF sorted = << >> THEN << x >>
    ELSE IF x < Head(sorted) THEN << x >> \o sorted
    ELSE << Head(sorted) >> \o insertAscending(Tail(sorted), x)

\* Array.prototype.sort((a, b) => a - b) on a list of finite numbers
RECURSIVE sortAscending(_)
sortAscending(levels) ==
    IF levels = << >> THEN << >>
    ELSE insertAscending(sortAscending(Tail(levels)), Head(levels))

\* tiers.map(tier => tier?.level).filter(level => Number.isFinite(level))
RECURSIVE finiteLevels(_)
finiteLevels(tierList) ==
    IF tierList = << >> THEN << >>
    ELSE LET tier == Head(tierList)
             level == IF tier = JsNull THEN JsUndefined ELSE tier.level
         IN IF NumberIsFinite(level)
            THEN << level.n >> \o finiteLevels(Tail(tierList))
            ELSE finiteLevels(Tail(tierList))

\* indexOf that answers 0 for a number that is absent
indexOf_ZeroWhenAbsent(list, x) ==
    LET matches == { i \in 1..Len(list) : list[i] = x }
    IN IF matches = {} THEN 0
       ELSE (CHOOSE i \in matches : \A j \in matches : i <= j) - 1

\* Array.prototype.indexOf on a list of numbers: 0-based, -1 when absent
indexOf(list, x) ==
    LET matches == { i \in 1..Len(list) : list[i] = x }
    IN IF matches = {} THEN 0 - 1
       ELSE (CHOOSE i \in matches : \A j \in matches : i <= j) - 1

\* the index in the ascending list, counted from one, as the rank
tierIndexFromBottom_FromTop(tiers, tierLevel) ==
    IF tiers.t # "array" THEN JsString("?")
    ELSE IF Len(tiers.a) = 0 THEN JsString("?")
    ELSE IF ~NumberIsFinite(tierLevel) THEN JsString("?")
    ELSE LET sortedTierLevelsAscending == sortAscending(finiteLevels(tiers.a))
             indexInAscendingList == indexOf(sortedTierLevelsAscending, tierLevel.n)
         IN IF indexInAscendingList = 0 - 1 THEN JsString("?")
            ELSE JsNum(indexInAscendingList + 1)

\* tiers is a JS value: JsArray of tier entries, or anything else
tierIndexFromBottom(tiers, tierLevel) ==
    IF tiers.t # "array" THEN JsString("?")
    ELSE IF Len(tiers.a) = 0 THEN JsString("?")
    ELSE IF ~NumberIsFinite(tierLevel) THEN JsString("?")
    ELSE LET sortedTierLevelsAscending == sortAscending(finiteLevels(tiers.a))
             indexInAscendingList == indexOf(sortedTierLevelsAscending, tierLevel.n)
         IN IF indexInAscendingList = 0 - 1 THEN JsString("?")
            ELSE JsNum(Len(sortedTierLevelsAscending) - indexInAscendingList)

-----------------------------------------------------------------------------
(* generateRowPreviewLines.js: the two lines of a row *)

\* a slot's selectedAffixKey is truthy: neither null nor the empty string
truthyKey(key) == key # NullKey /\ key # ""

RECURSIVE countSelectedAffixes(_)
countSelectedAffixes(affixSlots) ==
    IF affixSlots = << >> THEN 0
    ELSE (IF truthyKey(Head(affixSlots).selectedAffixKey) THEN 1 ELSE 0)
         + countSelectedAffixes(Tail(affixSlots))

\* Magic up to three selected affixes
rarityFromSelectedAffixCount_MagicUpTo3(selectedAffixCount) ==
    IF selectedAffixCount = 0 THEN "Normal"
    ELSE IF selectedAffixCount <= 3 THEN "Magic"
    ELSE "Rare"

rarityFromSelectedAffixCount(selectedAffixCount) ==
    IF selectedAffixCount = 0 THEN "Normal"
    ELSE IF selectedAffixCount <= 2 THEN "Magic"
    ELSE "Rare"

\* the category as stored, blank or not
resolvePickitCategoryFromItem_NoTrim(selectedItem) ==
    LET pickitCategory ==
            IF selectedItem = JsNull THEN ""
            ELSE IF selectedItem.pickitCategory.t = "string"
            THEN selectedItem.pickitCategory.s
            ELSE ""
    IN IF pickitCategory = "" THEN JsNull ELSE JsString(pickitCategory)

\* selectedItem is JsNull or a record with the field pickitCategory (a JS
\* value); the result is the trimmed category, or JsNull when it is blank
resolvePickitCategoryFromItem(selectedItem) ==
    LET pickitCategory ==
            IF selectedItem = JsNull THEN ""
            ELSE IF selectedItem.pickitCategory.t = "string"
            THEN Trim(selectedItem.pickitCategory.s)
            ELSE ""
    IN IF pickitCategory = "" THEN JsNull ELSE JsString(pickitCategory)

\* Array.prototype.join
RECURSIVE join(_, _)
join(list, separator) ==
    IF list = << >> THEN ""
    ELSE IF Len(list) = 1 THEN list[1]
    ELSE list[1] \o separator \o join(Tail(list), separator)

\* tiers.find(t => t?.level === selectedTierLevel): the index of the first
\* such tier, 0 when there is none; NaN is equal to nothing
findTierByLevel(tiers, selectedTierLevel) ==
    LET matches == { t \in 1..Len(tiers) :
                        /\ selectedTierLevel.t # "nan"
                        /\ tiers[t].level = selectedTierLevel }
    IN IF matches = {} THEN 0
       ELSE CHOOSE t \in matches : \A u \in matches : t <= u

\* `T${tIndex}`
tierLabel(tIndex) == "T" \o (IF tIndex.t = "number" THEN ToString(tIndex.n) ELSE tIndex.s)

\* the loop of buildHumanCommentLine over the slots, from JS index slotIndex on
RECURSIVE describeFromSlot(_, _, _, _)
describeFromSlot(keys, affixSlots, slotIndex, selectedAffixDescriptions) ==
    IF slotIndex >= Len(affixSlots) THEN selectedAffixDescriptions
    ELSE LET slot == affixSlots[slotIndex + 1]
             affix == findAffixByKey(keys, slot.selectedAffixKey)
         IN IF ~truthyKey(slot.selectedAffixKey) \/ affix = JsNull
            THEN describeFromSlot(keys, affixSlots, slotIndex + 1, selectedAffixDescriptions)
            ELSE LET tiers == availableTiersForSlot(keys, slotIndex)
                     selectedTierLevel == IF slot.selectedTierLevel.t = "undefined"
                                          THEN JsNull ELSE slot.selectedTierLevel
                     selectedTier == findTierByLevel(tiers, selectedTierLevel)
                     tierText == IF selectedTier # 0
                                 THEN tierLabel(tierIndexFromBottom(JsArray(tiers),
                                                    tiers[selectedTier].level))
                                 ELSE "any tier"
                 IN describeFromSlot(keys, affixSlots, slotIndex + 1,
                        Append(selectedAffixDescriptions,
                               affix.template \o " of tier " \o tierText))

\* selectedItem?.pickitCategory || "UNKNOWN": the category as stored, not trimmed
buildHumanCommentLine(selectedItem, affixSlots, inferredRarity, actionFlag) ==
    LET pickitCategory ==
            IF selectedItem # JsNull /\ selectedItem.pickitCategory.t = "string"
               /\ selectedItem.pickitCategory.s # ""
            THEN selectedItem.pickitCategory.s
            ELSE "UNKNOWN"
        selectedAffixDescriptions == describeFromSlot(catalogKeys, affixSlots, 0, << >>)
        affixPart == IF Len(selectedAffixDescriptions) > 0
                     THEN " if they have at least " \o join(selectedAffixDescriptions, ", ")
                     ELSE ""
    IN "// Picks up " \o pickitCategory \o " of rarity " \o inferredRarity \o
       " and " \o actionFlag \o affixPart

\* the category check alone
beforeIdentifyClause_NoRarity(pickitCategory, inferredRarity) ==
    "[Category] == \"" \o pickitCategory \o "\""

\* `[Category] == "${pickitCategory}" && [Rarity] == "${inferredRarity}"`
beforeIdentifyClause(pickitCategory, inferredRarity) ==
    "[Category] == \"" \o pickitCategory \o "\" && [Rarity] == \"" \o inferredRarity \o "\""

FallbackLine == "[Category] == \"UNKNOWN\" # [StashItem] == \"true\""

\* every config type taken for "items"
resolveConfigType_AlwaysItems(raw) == "items"

\* typeof params?.configType === "string" ? params.configType : "items"
resolveConfigType(raw) == IF raw.t = "string" THEN raw.s ELSE "items"

\* p is the params object without the slots and the lookups: the fields
\* configType, selectedItemSlug, actionFlag (JS values) and selectedItem
generateRowPreviewLines(p, affixSlots) ==
    LET configType == resolveConfigType(p.configType)
        itemSlug == IF p.selectedItemSlug.t = "string" THEN p.selectedItemSlug.s ELSE ""
        pickitCategory == resolvePickitCategoryFromItem(p.selectedItem)
    IN IF configType # "items" THEN << >>
       ELSE IF itemSlug = "" THEN << >>
       ELSE IF pickitCategory = JsNull THEN << FallbackLine >>
       ELSE LET inferredRarity == rarityFromSelectedAffixCount(countSelectedAffixes(affixSlots))
                actionFlag == resolvePickitActionFlag(p.actionFlag)
                afterIdentify == join(afterConditions(affixSlots, p.actionFlag), " && ")
                commentLine == buildHumanCommentLine(p.selectedItem, affixSlots,
                                                     inferredRarity, actionFlag)
                ruleLine == beforeIdentifyClause(pickitCategory.s, inferredRarity) \o
                            " # " \o afterIdentify
            IN << commentLine, ruleLine >>

-----------------------------------------------------------------------------
(* useAffixSlots: operations *)

\* splice that always drops the last element
spliceOne_DropsLast(slotList, slotIndex) == SubSeq(slotList, 1, Len(slotList) - 1)

\* Array.prototype.splice(slotIndex, 1)
spliceOne(slotList, slotIndex) ==
    SubSeq(slotList, 1, slotIndex) \o SubSeq(slotList, slotIndex + 2, Len(slotList))

\* an item record of the items store
Item(pickitCategory) == [pickitCategory |-> pickitCategory]

\* what Row.vue passes to generateRowPreviewLines for an item of category
\* "Ring": neither configType nor actionFlag
RowParams ==
    [configType |-> JsUndefined, selectedItemSlug |-> JsString("rings"),
     selectedItem |-> Item(JsString("Ring")), actionFlag |-> JsUndefined]

\* lines before generateRowPreviewLines was called on the current inputs
NotCompiled == << "<not compiled>" >>

\* no call of collectOrderedStatsAndTotals yet
NotAggregated == JsUndefined

\* the one row of the configurator
RowId == "row-1"

\* no getAffixesForSlug call is awaited
NoLoad == "<none>"

\* finalText before "Generate final" makes a text that is not empty.  The
\* specification of the row follows it up to the first such text: no event
\* is taken after it.
NoFinalText == ""

\* the variables of Row.vue and Configurator.vue where no row is mounted
RowNotMounted ==
    /\ availableItems = << >>
    /\ selectedConfigType = "items"
    /\ selectedItemSlug = ""
    /\ isLoadingAffixes = FALSE
    /\ pendingLoad = NoLoad
    /\ affixesBySlugCache = << >>
    /\ effectQueued = FALSE
    /\ rowLinesById = << >>
    /\ finalText = NoFinalText
    /\ rows = << >>
    /\ storeCalls = << >>

\* the ways a call of an operation ends
NotCalled == "not called"
Returned == "returned"
TypeError == "TypeError"

\* tierIndexFromBottom before a call: no arguments, no result
NoRankArgs == [tiers |-> JsUndefined, tierLevel |-> JsUndefined]
NotRanked == JsUndefined

\* affixKey before a call: no arguments, no results
NoKeyArgs == << JsUndefined, JsUndefined >>
NotKeyed == << >>

Init ==
    /\ options = RowOptions
    /\ affixes \in Catalogs
    /\ slots = << createEmptySlot >>
    /\ params = RowParams
    /\ lines = NotCompiled
    /\ aggregated = NotAggregated
    /\ rankArgs = NoRankArgs
    /\ rankResult = NotRanked
    /\ keyArgs = NoKeyArgs
    /\ keyResult = NotKeyed
    /\ outcome = NotCalled
    /\ RowNotMounted

resetSlots ==
    /\ slots' = watchSelectedKeys(<< createEmptySlot >>, selectedKeys(slots))
    /\ UNCHANGED <<options, affixes>>

addSlot ==
    /\ slots' = IF Len(slots) >= maxAffixSlots THEN slots
                ELSE IF ~canAddSlot THEN slots
                ELSE watchSelectedKeys(Append(slots, createEmptySlot), selectedKeys(slots))
    /\ UNCHANGED <<options, affixes>>

\* removeSlot that also removes the only slot
removeSlot_NoFloor(slotIndex) ==
    /\ slots' = IF Len(slots) <= 0 THEN slots
                ELSE watchSelectedKeys(spliceOne(slots, slotIndex), selectedKeys(slots))
    /\ UNCHANGED <<options, affixes>>

removeSlot(slotIndex) ==
    /\ slots' = IF Len(slots) <= 1 THEN slots
                ELSE watchSelectedKeys(spliceOne(slots, slotIndex), selectedKeys(slots))
    /\ UNCHANGED <<options, affixes>>

\* v-model on the affix <select> of slot slotIndex: the user picks one of the
\* rendered options
selectAffix(slotIndex) ==
    /\ Len(affixes) > 0
    /\ \E key \in optionKeys(slotIndex) :
          slots' = watchSelectedKeys(
                      [slots EXCEPT ![slotIndex + 1].selectedAffixKey = key],
                      selectedKeys(slots))
    /\ UNCHANGED <<options, affixes>>

\* v-model.number on the tier <select> of slot slotIndex: the user picks the
\* level of one of the tiers of the selected affix
selectTier(slotIndex) ==
    /\ \E tier \in Range(availableTiersForSlot(catalogKeys, slotIndex)) :
          slots' = [slots EXCEPT ![slotIndex + 1].selectedTierLevel = tier.level]
    /\ UNCHANGED <<options, affixes>>

SlotIndices == 0..(Len(slots) - 1)

Next ==
    \/ resetSlots /\ UNCHANGED <<compilerVars, rankVars, keyVars, outcome, rowVars>>
    \/ addSlot /\ UNCHANGED <<compilerVars, rankVars, keyVars, outcome, rowVars>>
    \/ \E slotIndex \in SlotIndices : removeSlot(slotIndex) /\ UNCHANGED <<compilerVars, rankVars, keyVars, outcome, rowVars>>
    \/ \E slotIndex \in SlotIndices : selectAffix(slotIndex) /\ UNCHANGED <<compilerVars, rankVars, keyVars, outcome, rowVars>>
    \/ \E slotIndex \in SlotIndices : selectTier(slotIndex) /\ UNCHANGED <<compilerVars, rankVars, keyVars, outcome, rowVars>>

Spec == Init /\ [][Next]_vars

-----------------------------------------------------------------------------
(* The composable under other limits than those of Row.vue *)

\* the options objects: the limits of Row.vue, and small limits with a
\* limit left out (the default applies) or zero
OptionSets ==
    { RowOptions } \cup
    { Options(maxSlots, maxPrefixes, maxSuffixes) :
        maxSlots \in { JsNum(2), JsNum(3) },
        maxPrefixes \in { JsNum(0), JsNum(1), JsUndefined },
        maxSuffixes \in { JsNum(0), JsNum(1) } }

OptionsInit ==
    /\ options \in OptionSets
    /\ affixes \in Catalogs
    /\ slots = << createEmptySlot >>
    /\ params = RowParams
    /\ lines = NotCompiled
    /\ aggregated = NotAggregated
    /\ rankArgs = NoRankArgs
    /\ rankResult = NotRanked
    /\ keyArgs = NoKeyArgs
    /\ keyResult = NotKeyed
    /\ outcome = NotCalled
    /\ RowNotMounted

OptionsSpec == OptionsInit /\ [][Next]_vars

-----------------------------------------------------------------------------
(* The compiler as a function of its inputs *)

ConfigTypes == { JsString("items"), JsString("currency"), JsUndefined }
ItemSlugs == { JsString("rings"), JsString(""), JsUndefined }
SelectedItems ==
    { JsNull, Item(JsUndefined), Item(JsString("  ")), Item(JsString("Ring")),
      Item(JsString(" Ring ")) }
ActionFlagInputs ==
    { JsUndefined, JsString("Salvage"), JsString(" StashUnid "),
      JsString("Bogus"), JsNum(1) }

\* Longest slot collection handed to the compiler
MaxCompileSlots == 3

\* the states a slot over the catalog can be in: empty, or holding the key of
\* an entry with no tier or with the level of one of the tiers of that entry
SlotValues(catalog) ==
    { createEmptySlot } \cup
    UNION { { [selectedAffixKey |-> affixKey(catalog[j]), selectedTierLevel |-> JsNull] } \cup
            { [selectedAffixKey |-> affixKey(catalog[j]),
               selectedTierLevel |-> catalog[j].tiers[t].level] :
                  t \in 1..Len(catalog[j].tiers) } :
            j \in 1..Len(catalog) }

SlotCollections(catalog) ==
    UNION { [1..n -> SlotValues(catalog)] : n \in 1..MaxCompileSlots }

CompileInit ==
    /\ options = RowOptions
    /\ affixes \in Catalogs
    /\ slots \in SlotCollections(affixes)
    /\ params \in [configType : ConfigTypes, selectedItemSlug : ItemSlugs,
                    selectedItem : SelectedItems, actionFlag : ActionFlagInputs]
    /\ lines = NotCompiled
    /\ aggregated = NotAggregated
    /\ rankArgs = NoRankArgs
    /\ rankResult = NotRanked
    /\ keyArgs = NoKeyArgs
    /\ keyResult = NotKeyed
    /\ outcome = NotCalled
    /\ RowNotMounted

\* a call of generateRowPreviewLines on the inputs; the call reaches the
\* aggregation when it returns the comment line and the rule line
compileCall ==
    LET preview == generateRowPreviewLines(params, slots)
    IN /\ lines' = preview
       /\ affixes' = IF Len(preview) = 2 THEN catalogAfterAggregation(slots) ELSE affixes
       /\ UNCHANGED <<options, slots, params, aggregated, rankVars, keyVars, outcome, rowVars>>

\* the first call of generateRowPreviewLines on the inputs
compile ==
    /\ lines = NotCompiled
    /\ compileCall

\* a further call, on the state the call before it left
recompile ==
    /\ lines # NotCompiled
    /\ compileCall

CompileNext == compile

CompileSpec == CompileInit /\ [][CompileNext]_vars

-----------------------------------------------------------------------------
(* The aggregation and the compiler on catalogs with malformed entries *)

\* the tier has an entry without id, entries whose min is null, a numeric
\* string or NaN, and entries that are well formed
SuffixBroken ==
    Affix("suffix", "broken", "Broken modifier",
          << Tier(1, << [min |-> JsNum(1), max |-> JsNum(2)],
                        Stat("life", JsNull, JsNum(5)),
                        Stat("res", JsNum(1), JsNum(2)),
                        Stat("life", JsNumStr(4), JsNum(6)),
                        Stat("res", JsNum(3), JsNaN) >>) >>)

\* two tiers of the same level, and a tier whose level is null
PrefixTwin ==
    Affix("prefix", "twin", "Twin modifier",
          << Tier(2, << Stat("twin", JsNum(1), JsNum(2)) >>),
             Tier(2, << >>),
             [level |-> JsNull, stats |-> << >>] >>)

AggregatePool == << PrefixLife, PrefixMana, SuffixBroken, PrefixTwin >>

\* Largest catalog handed to the aggregation
MaxAggregateCatalog == 2

\* every contiguous window of the pool of at most MaxAggregateCatalog entries,
\* the empty catalog included
AggregateCatalogs ==
    { SubSeq(AggregatePool, w[1], w[2]) :
        w \in { v \in (1..Len(AggregatePool)) \X (0..Len(AggregatePool)) :
                  v[2] - v[1] + 1 \in 0..MaxAggregateCatalog } }

\* Longest slot collection handed to the aggregation
MaxAggregateSlots == 2

\* the key of an affix that no catalog of the aggregation holds
ForeignKey == affixKey(OtherImplicit)

\* the states of a slot handed to the aggregation: empty, a key that is not
\* in the catalog, or the key of an entry with no level, NaN, a numeric
\* string, a level the entry has no tier of, or the level of one of its tiers
AggregateSlotValues(catalog) ==
    { createEmptySlot, [selectedAffixKey |-> ForeignKey, selectedTierLevel |-> JsNum(1)] } \cup
    UNION { { [selectedAffixKey |-> affixKey(catalog[j]), selectedTierLevel |-> level] :
                level \in { JsNull, JsNaN, JsNumStr(1), JsNum(7) } \cup
                          { catalog[j].tiers[t].level : t \in 1..Len(catalog[j].tiers) } } :
            j \in 1..Len(catalog) }

AggregateInit ==
    /\ options = RowOptions
    /\ affixes \in AggregateCatalogs
    /\ slots \in UNION { [1..n -> AggregateSlotValues(affixes)] : n \in 1..MaxAggregateSlots }
    /\ params = RowParams
    /\ lines = NotCompiled
    /\ aggregated = NotAggregated
    /\ rankArgs = NoRankArgs
    /\ rankResult = NotRanked
    /\ keyArgs = NoKeyArgs
    /\ keyResult = NotKeyed
    /\ outcome = NotCalled
    /\ RowNotMounted

\* one call of collectOrderedStatsAndTotals on the inputs
aggregate ==
    /\ aggregated' = collectOrderedStatsAndTotals(slots)
    /\ affixes' = catalogAfterAggregation(slots)
    /\ UNCHANGED <<options, slots, params, lines, rankVars, keyVars, outcome, rowVars>>

\* the two functions, called on the inputs any number of times
AggregateNext ==
    \/ aggregate
    \/ compile
    \/ recompile

AggregateSpec == AggregateInit /\ [][AggregateNext]_vars

-----------------------------------------------------------------------------
(* The aggregation on the same slots in another order *)

\* the bounds of the first tier are the least Number whose successor is two
\* away; the second tier carries the same id twice
PrefixWide ==
    Affix("prefix", "wide", "Wide modifier",
          << Tier(1, << Stat("wide", JsNum(Pow2(SignificandBits)),
                                     JsNum(Pow2(SignificandBits))) >>),
             Tier(2, << Stat("wide", JsNum(1), JsNum(1)),
                        Stat("wide", JsNum(1), JsNum(3)) >>) >>)

ReorderPool == << PrefixLife, PrefixMana, PrefixWide >>

\* every contiguous window of the pool of at most MaxAggregateCatalog entries
ReorderCatalogs ==
    { SubSeq(ReorderPool, w[1], w[2]) :
        w \in { v \in (1..Len(ReorderPool)) \X (0..Len(ReorderPool)) :
                  v[2] - v[1] + 1 \in 0..MaxAggregateCatalog } }

\* the states of a slot a user can make: empty, or an entry of the catalog
\* with the level of one of its tiers
ReorderSlotValues(catalog) ==
    { createEmptySlot } \cup
    UNION { { [selectedAffixKey |-> affixKey(catalog[j]), selectedTierLevel |-> level] :
                level \in { catalog[j].tiers[t].level : t \in 1..Len(catalog[j].tiers) } } :
            j \in 1..Len(catalog) }

ReorderInit ==
    /\ options = RowOptions
    /\ affixes \in ReorderCatalogs
    /\ slots \in UNION { [1..n -> ReorderSlotValues(affixes)] : n \in 1..MaxAggregateSlots }
    /\ params = RowParams
    /\ lines = NotCompiled
    /\ aggregated = NotAggregated
    /\ rankArgs = NoRankArgs
    /\ rankResult = NotRanked
    /\ keyArgs = NoKeyArgs
    /\ keyResult = NotKeyed
    /\ outcome = NotCalled
    /\ RowNotMounted

\* the slot collections that hold the slots of slotList in another order
Reorderings(slotList) ==
    { [i \in 1..Len(slotList) |-> slotList[order[i]]] :
        order \in { f \in [1..Len(slotList) -> 1..Len(slotList)] :
                      \A i, j \in 1..Len(slotList) : f[i] = f[j] => i = j } }
    \ { slotList }

\* the caller puts the slots in another order; aggregated stays the result of
\* the last call
reorderSlots ==
    /\ aggregated # NotAggregated
    /\ slots' \in Reorderings(slots)
    /\ UNCHANGED <<options, affixes, params, lines, aggregated, rankVars, keyVars,
                   outcome, rowVars>>

\* collectOrderedStatsAndTotals is called on the slots, then on the same
\* slots in other orders
ReorderNext ==
    \/ aggregate
    \/ reorderSlots

ReorderSpec == ReorderInit /\ [][ReorderNext]_vars

-----------------------------------------------------------------------------
(* The affix key as a function of its inputs *)

KeyFieldNames == { "kind", "domain", "family_key", "identifier", "template" }

\* the strings a field of an argument holds
KeyFieldValues == { "", "a" }

\* the strings the field of the name holds: the first two fields may hold
\* the separator as well
KeyFieldValuesOf(name) ==
    IF name \in { "kind", "domain" } THEN KeyFieldValues \cup { "|" } ELSE KeyFieldValues

\* the arguments that are objects: any of the five fields is a string or is
\* not a string (it is left out)
KeyObjects ==
    UNION { { object \in [present -> KeyFieldValues \cup { "|" }] :
                \A name \in present : object[name] \in KeyFieldValuesOf(name) } :
            present \in SUBSET KeyFieldNames }

\* the arguments that are not objects
KeyPrimitives == { JsNull, JsUndefined, JsNum(1), JsString("a|a|a|a|a") }

KeyInputs == KeyObjects \cup KeyPrimitives

KeyInit ==
    /\ options = RowOptions
    /\ affixes = << >>
    /\ slots = << createEmptySlot >>
    /\ params = RowParams
    /\ lines = NotCompiled
    /\ aggregated = NotAggregated
    /\ rankArgs = NoRankArgs
    /\ rankResult = NotRanked
    /\ keyArgs \in KeyInputs \X KeyInputs
    /\ keyResult = NotKeyed
    /\ outcome = NotCalled
    /\ RowNotMounted

\* one call of affixKey on each of the two arguments
callAffixKey ==
    /\ keyResult = NotKeyed
    /\ keyResult' = << affixKey(keyArgs[1]), affixKey(keyArgs[2]) >>
    /\ outcome' = Returned
    /\ UNCHANGED <<slotVars, compilerVars, rankVars, keyArgs, rowVars>>

KeyNext == callAffixKey

KeySpec == KeyInit /\ [][KeyNext]_vars

-----------------------------------------------------------------------------
(* The tier ranker as a function of its inputs *)

\* Longest tier list handed to the ranker
MaxTiers == 3

\* the entries of a tier list: tiers of three levels, a tier without a level,
\* a tier whose level is a numeric string, and null
TierEntries ==
    { Tier(1, << >>), Tier(10, << >>), Tier(20, << >>),
      [level |-> JsUndefined, stats |-> << >>],
      [level |-> JsNumStr(10), stats |-> << >>],
      JsNull }

\* the tiers argument: a list of at most MaxTiers entries, or no list
TierLists ==
    { JsNull, JsUndefined } \cup
    { JsArray(list) : list \in UNION { [1..n -> TierEntries] : n \in 0..MaxTiers } }

\* the tierLevel argument
TierLevels ==
    { JsNum(1), JsNum(10), JsNum(20), JsNum(5), JsNaN, JsNull, JsUndefined, JsNumStr(10) }

RankInit ==
    /\ options = RowOptions
    /\ rankArgs \in [tiers : TierLists, tierLevel : TierLevels]
    /\ rankResult = NotRanked
    /\ keyArgs = NoKeyArgs
    /\ keyResult = NotKeyed
    /\ affixes = << >>
    /\ slots = << createEmptySlot >>
    /\ params = RowParams
    /\ lines = NotCompiled
    /\ aggregated = NotAggregated
    /\ outcome = NotCalled
    /\ RowNotMounted

\* one call of tierIndexFromBottom on the inputs
rank ==
    /\ rankResult = NotRanked
    /\ rankResult' = tierIndexFromBottom(rankArgs.tiers, rankArgs.tierLevel)
    /\ UNCHANGED <<slotVars, compilerVars, rankArgs, keyVars, outcome, rowVars>>

\* a further call of tierIndexFromBottom on the same tiers with another level
rankAgain ==
    /\ rankResult # NotRanked
    /\ \E tierLevel \in TierLevels \ { rankArgs.tierLevel } :
          /\ rankArgs' = [rankArgs EXCEPT !.tierLevel = tierLevel]
          /\ rankResult' = tierIndexFromBottom(rankArgs.tiers, tierLevel)
    /\ UNCHANGED <<slotVars, compilerVars, keyVars, outcome, rowVars>>

RankNext ==
    \/ rank
    \/ rankAgain

RankSpec == RankInit /\ [][RankNext]_vars

-----------------------------------------------------------------------------
(* The operations on a catalog that may hold null entries *)

\* Largest catalog with null entries
MaxMalformedCatalog == 2

\* the catalogs of at most MaxMalformedCatalog entries, each an entry of the
\* pool or null
MalformedCatalogs ==
    UNION { [1..n -> Range(AffixPool) \cup { JsNull }] : n \in 0..MaxMalformedCatalog }

\* groupsForSlot, lines 211-213: the filter callback reads affixFamily.kind
\* of every entry of the catalog, and reading a property of null throws
groupsForSlotOutcome(slotIndex) ==
    IF \E j \in 1..Len(affixes) : affixes[j] = JsNull THEN TypeError ELSE Returned

\* canAddSlot, lines 261-269: groupsForSlot is called after the two checks
canAddSlotOutcome ==
    IF Len(slots) >= maxAffixSlots THEN Returned
    ELSE IF Len(affixes) = 0 THEN Returned
    ELSE groupsForSlotOutcome(Len(slots))

\* addSlot, lines 83-84: canAddSlot is read after the check of the slot cap
addSlotOutcome ==
    IF Len(slots) >= maxAffixSlots THEN Returned ELSE canAddSlotOutcome

MalformedInit ==
    /\ options = RowOptions
    /\ affixes \in MalformedCatalogs
    /\ slots = << createEmptySlot >>
    /\ params = RowParams
    /\ lines = NotCompiled
    /\ aggregated = NotAggregated
    /\ rankArgs = NoRankArgs
    /\ rankResult = NotRanked
    /\ keyArgs = NoKeyArgs
    /\ keyResult = NotKeyed
    /\ outcome = NotCalled
    /\ RowNotMounted

callGroupsForSlot(slotIndex) ==
    /\ outcome' = groupsForSlotOutcome(slotIndex)
    /\ outcome' = Returned => groupsForSlot(slotIndex) \in Seq([label : STRING, items : Seq(Range(affixes))])
    /\ UNCHANGED <<slotVars, compilerVars, rankVars, keyVars, rowVars>>

callCanAddSlot ==
    /\ outcome' = canAddSlotOutcome
    /\ outcome' = Returned => canAddSlot \in BOOLEAN
    /\ UNCHANGED <<slotVars, compilerVars, rankVars, keyVars, rowVars>>

callAddSlot ==
    /\ outcome' = addSlotOutcome
    /\ IF outcome' = Returned THEN addSlot ELSE UNCHANGED slotVars
    /\ UNCHANGED <<compilerVars, rankVars, keyVars, rowVars>>

callRemoveSlot(slotIndex) ==
    /\ removeSlot(slotIndex)
    /\ outcome' = Returned
    /\ UNCHANGED <<compilerVars, rankVars, keyVars, rowVars>>

callResetSlots ==
    /\ resetSlots
    /\ outcome' = Returned
    /\ UNCHANGED <<compilerVars, rankVars, keyVars, rowVars>>

\* affixKey and findAffixByKey on every entry of the catalog
callFindAffixByKey ==
    /\ \A j \in 1..Len(affixes) :
          findAffixByKey(catalogKeys, affixKey(affixes[j])) \in Range(affixes)
    /\ outcome' = Returned
    /\ UNCHANGED <<slotVars, compilerVars, rankVars, keyVars, rowVars>>

callAddDisabledReason ==
    /\ addDisabledReason \in STRING
    /\ outcome' = Returned
    /\ UNCHANGED <<slotVars, compilerVars, rankVars, keyVars, rowVars>>

\* collectOrderedStatsAndTotals and generateRowPreviewLines on the slots
callCompile ==
    /\ lines' = generateRowPreviewLines(params, slots)
    /\ outcome' = Returned
    /\ UNCHANGED <<slotVars, params, aggregated, rankVars, keyVars, rowVars>>

MalformedNext ==
    \/ \E slotIndex \in 0..Len(slots) : callGroupsForSlot(slotIndex)
    \/ callCanAddSlot
    \/ callAddSlot
    \/ \E slotIndex \in SlotIndices : callRemoveSlot(slotIndex)
    \/ callResetSlots
    \/ callFindAffixByKey
    \/ callAddDisabledReason
    \/ callCompile

MalformedSpec == MalformedInit /\ [][MalformedNext]_vars

-----------------------------------------------------------------------------------------------------------------------------------------------------
(* Row.vue and Configurator.vue: one row, its catalog loads and the lines   *)
(* the configurator stores for it.  An event-loop tick is two steps here:   *)
(* the handler with the watchers it triggers, which queues the watchEffect  *)
(* of the row, and flushEffect, the run of the queued effect in Vue's flush *)
(* (a microtask: it runs before the next event or promise callback, so no   *)
(* other action is enabled while the effect is queued).                     *)

\* Most slots the row is given in this specification
MaxRowSlots == 2

\* items.json: the second item has no pickitCategory
StoreItems ==
    << [slug |-> "rings", pickitCategory |-> JsString("Ring")],
       [slug |-> "amulets", pickitCategory |-> JsUndefined] >>

\* data/affixes/<slug>.json, after the filter of visibleAffixFamilies
AffixesOfSlug(slug) ==
    IF slug = "rings" THEN << PrefixLife, PrefixMana >> ELSE << SuffixRes >>

ConfigTypeOptions == { "items", "currency", "gems" }

\* availableItems.value.find(item => item.slug === selectedItemSlug.value) || null
rowSelectedItem ==
    LET matches == { i \in 1..Len(availableItems) : availableItems[i].slug = selectedItemSlug }
    IN IF matches = {} THEN JsNull
       ELSE availableItems[CHOOSE i \in matches : \A j \in matches : i <= j]

computeCurrentRowLines ==
    IF selectedConfigType # "items" THEN << >>
    ELSE generateRowPreviewLines(
             [configType |-> JsUndefined,
              selectedItemSlug |-> JsString(selectedItemSlug),
              selectedItem |-> rowSelectedItem,
              actionFlag |-> JsUndefined],
             slots)

\* onRowUpdateLines: rowLinesById.set(rowId, normalizedLines)
onRowUpdateLines(linesById, rowId, rowLines) ==
    [id \in DOMAIN linesById \cup { rowId } |->
        IF id = rowId THEN rowLines ELSE linesById[id]]

\* a reset that leaves the slots as they are
slotsAfterReset_KeepsSlots == slots

\* the slots after resetSlots
slotsAfterReset == watchSelectedKeys(<< createEmptySlot >>, selectedKeys(slots))

\* the row is mounted: its watchEffect ran once, on no item
RowInit ==
    /\ options = RowOptions
    /\ affixes = << >>
    /\ slots = << createEmptySlot >>
    /\ params = RowParams
    /\ lines = NotCompiled
    /\ aggregated = NotAggregated
    /\ rankArgs = NoRankArgs
    /\ rankResult = NotRanked
    /\ keyArgs = NoKeyArgs
    /\ keyResult = NotKeyed
    /\ outcome = NotCalled
    /\ availableItems = << >>
    /\ selectedConfigType = "items"
    /\ selectedItemSlug = ""
    /\ isLoadingAffixes = FALSE
    /\ pendingLoad = NoLoad
    /\ affixesBySlugCache = << >>
    /\ effectQueued = FALSE
    /\ rowLinesById = (RowId :> << >>)
    /\ finalText = NoFinalText
    /\ rows = << RowId >>
    /\ storeCalls = << >>

\* the watchEffect, lines 375-382: nothing is emitted while isLoadingAffixes
\* is set
flushEffect ==
    /\ effectQueued
    /\ effectQueued' = FALSE
    /\ rowLinesById' = IF isLoadingAffixes THEN rowLinesById
                       ELSE onRowUpdateLines(rowLinesById, RowId, computeCurrentRowLines)
    /\ UNCHANGED <<availableItems, selectedConfigType, selectedItemSlug, isLoadingAffixes,
                   pendingLoad, affixesBySlugCache, finalText, rows, storeCalls>>
    /\ UNCHANGED <<slotVars, compilerVars, rankVars, keyVars, outcome>>

\* loadAffixesForSelectedItem(slug) up to its await, or to its end when the
\* affixes of the slug are cached (the call then settles within the tick)
startLoad(slug) ==
    IF slug = ""
    THEN /\ affixes' = << >>
         /\ slots' = slotsAfterReset
         /\ rowLinesById' = onRowUpdateLines(rowLinesById, RowId, << >>)
         /\ UNCHANGED <<isLoadingAffixes, pendingLoad>>
    ELSE IF slug \in DOMAIN affixesBySlugCache
    THEN /\ affixes' = affixesBySlugCache[slug]
         /\ slots' = slotsAfterReset
         /\ rowLinesById' = onRowUpdateLines(rowLinesById, RowId, << >>)
         /\ UNCHANGED <<isLoadingAffixes, pendingLoad>>
    ELSE /\ isLoadingAffixes' = TRUE
         /\ pendingLoad' = slug
         /\ UNCHANGED <<affixes, slots, rowLinesById>>

\* itemsStore.loadItems settles; watch(availableItems) selects the first item
\* and watch(selectedItemSlug) starts the load of its affixes
loadItems ==
    /\ ~effectQueued
    /\ finalText = NoFinalText
    /\ availableItems = << >>
    /\ availableItems' = StoreItems
    /\ IF selectedConfigType = "items" /\ selectedItemSlug = ""
       THEN /\ selectedItemSlug' = StoreItems[1].slug
            /\ startLoad(StoreItems[1].slug)
       ELSE UNCHANGED <<selectedItemSlug, affixes, slots, isLoadingAffixes, pendingLoad,
                        rowLinesById>>
    /\ effectQueued' = TRUE
    /\ UNCHANGED <<selectedConfigType, affixesBySlugCache, finalText, rows, storeCalls>>
    /\ UNCHANGED <<options, compilerVars, rankVars, keyVars, outcome>>

\* v-model on the item <select>, disabled while the affixes load
selectItem(slug) ==
    /\ ~effectQueued
    /\ finalText = NoFinalText
    /\ selectedConfigType = "items"
    /\ Len(availableItems) > 0
    /\ ~isLoadingAffixes
    /\ slug # selectedItemSlug
    /\ selectedItemSlug' = slug
    /\ startLoad(slug)
    /\ effectQueued' = TRUE
    /\ UNCHANGED <<availableItems, selectedConfigType, affixesBySlugCache, finalText, rows, storeCalls>>
    /\ UNCHANGED <<options, compilerVars, rankVars, keyVars, outcome>>

\* the awaited getAffixesForSlug call resolves: lines 309-316 and 324
loadResolves ==
    /\ ~effectQueued
    /\ finalText = NoFinalText
    /\ pendingLoad # NoLoad
    /\ affixes' = AffixesOfSlug(pendingLoad)
    /\ slots' = slotsAfterReset
    /\ rowLinesById' = onRowUpdateLines(rowLinesById, RowId, << >>)
    /\ isLoadingAffixes' = FALSE
    /\ pendingLoad' = NoLoad
    /\ affixesBySlugCache' =
          (pendingLoad :> AffixesOfSlug(pendingLoad)) @@ affixesBySlugCache
    /\ effectQueued' = TRUE
    /\ UNCHANGED <<availableItems, selectedConfigType, selectedItemSlug, finalText, rows, storeCalls>>
    /\ UNCHANGED <<options, compilerVars, rankVars, keyVars, outcome>>

\* the awaited getAffixesForSlug call rejects: lines 317-324
loadRejects ==
    /\ ~effectQueued
    /\ finalText = NoFinalText
    /\ pendingLoad # NoLoad
    /\ affixes' = << >>
    /\ slots' = slotsAfterReset
    /\ isLoadingAffixes' = FALSE
    /\ pendingLoad' = NoLoad
    /\ effectQueued' = TRUE
    /\ UNCHANGED <<availableItems, selectedConfigType, selectedItemSlug,
                   affixesBySlugCache, rowLinesById, finalText, rows, storeCalls>>
    /\ UNCHANGED <<options, compilerVars, rankVars, keyVars, outcome>>

\* v-model on the config type <select>, and watch(selectedConfigType);
\* watch(selectedItemSlug) starts no load outside "items".  The effect read
\* selectedConfigType in its last run unless it returned at isLoadingAffixes.
selectConfigType(newConfigType) ==
    /\ ~effectQueued
    /\ finalText = NoFinalText
    /\ newConfigType # selectedConfigType
    /\ selectedConfigType' = newConfigType
    /\ IF newConfigType = "items"
       THEN UNCHANGED <<selectedItemSlug, affixes, slots, rowLinesById>>
       ELSE /\ selectedItemSlug' = ""
            /\ affixes' = << >>
            /\ slots' = slotsAfterReset
            /\ rowLinesById' = onRowUpdateLines(rowLinesById, RowId, << >>)
    /\ effectQueued' = ~isLoadingAffixes
    /\ UNCHANGED <<availableItems, isLoadingAffixes, pendingLoad, affixesBySlugCache, finalText, rows, storeCalls>>
    /\ UNCHANGED <<options, compilerVars, rankVars, keyVars, outcome>>

\* what a tick that changes the slots alone leaves as it is; the effect read
\* the slots in its last run unless it returned at isLoadingAffixes
slotTick ==
    /\ ~effectQueued
    /\ finalText = NoFinalText
    /\ selectedConfigType = "items"
    /\ effectQueued' = ~isLoadingAffixes
    /\ UNCHANGED <<availableItems, selectedConfigType, selectedItemSlug, isLoadingAffixes,
                   pendingLoad, affixesBySlugCache, rowLinesById, finalText, rows, storeCalls>>
    /\ UNCHANGED <<compilerVars, rankVars, keyVars, outcome>>

rowAddSlot == Len(slots) < MaxRowSlots /\ addSlot /\ slotTick

rowRemoveSlot(slotIndex) == Len(slots) > 1 /\ removeSlot(slotIndex) /\ slotTick

rowSelectAffix(slotIndex) == selectAffix(slotIndex) /\ slotTick

rowSelectTier(slotIndex) == selectTier(slotIndex) /\ slotTick

\* every line of the row is kept
nonBlankLines_KeepsBlanks(linesForRow) == linesForRow

\* the lines of the row that are strings with something else than blanks
RECURSIVE nonBlankLines(_)
nonBlankLines(linesForRow) ==
    IF linesForRow = << >> THEN << >>
    ELSE IF Trim(Head(linesForRow)) # ""
    THEN << Head(linesForRow) >> \o nonBlankLines(Tail(linesForRow))
    ELSE nonBlankLines(Tail(linesForRow))

\* the text generateFinal makes of the lines of the row
finalTextOf(linesForRow) == join(nonBlankLines(linesForRow), "\n")

\* the loop of generateFinal over the rows: the lines it pushes
RECURSIVE combinedLines(_, _)
combinedLines(rowList, linesById) ==
    IF rowList = << >> THEN << >>
    ELSE LET linesForRow == IF Head(rowList) \in DOMAIN linesById
                            THEN linesById[Head(rowList)] ELSE << >>
         IN nonBlankLines(linesForRow) \o combinedLines(Tail(rowList), linesById)

\* one run of generateFinal
generateFinalCall ==
    /\ finalText' = join(combinedLines(rows, rowLinesById), "\n")
    /\ UNCHANGED <<availableItems, selectedConfigType, selectedItemSlug, isLoadingAffixes,
                   pendingLoad, affixesBySlugCache, effectQueued, rowLinesById, rows, storeCalls>>
    /\ UNCHANGED <<slotVars, compilerVars, rankVars, keyVars, outcome>>

\* the button "Generate final"
generateFinal ==
    /\ ~effectQueued
    /\ finalText = NoFinalText
    /\ generateFinalCall

RowNext ==
    \/ flushEffect
    \/ loadItems
    \/ \E slug \in { StoreItems[i].slug : i \in 1..Len(StoreItems) } : selectItem(slug)
    \/ loadResolves
    \/ loadRejects
    \/ \E newConfigType \in ConfigTypeOptions : selectConfigType(newConfigType)
    \/ rowAddSlot
    \/ \E slotIndex \in SlotIndices : rowRemoveSlot(slotIndex)
    \/ \E slotIndex \in SlotIndices : rowSelectAffix(slotIndex)
    \/ \E slotIndex \in SlotIndices : rowSelectTier(slotIndex)
    \/ generateFinal

RowSpec == RowInit /\ [][RowNext]_vars

-----------------------------------------------------------------------------
(* Configurator.vue: the list of rows *)

\* Most rows the list holds
MaxRows == 2

\* the ids createRowId can return
RowIds == { "row-1", "row-2", "row-3" }

\* the config lines a row emits carry the id of the row; a row also emits
\* lines that are empty or blank
LineOf(rowId, text) == rowId \o ": " \o text

\* the payload.lines of an update-lines event of a row: no array, or an
\* array of strings
LinePayloads(rowId) ==
    { JsUndefined } \cup
    { JsArray(list) :
        list \in { << >>,
                   << LineOf(rowId, "x") >>,
                   << "  ", LineOf(rowId, "y") >>,
                   << LineOf(rowId, "x"), "", LineOf(rowId, "y") >> } }

ConfiguratorInit ==
    /\ options = RowOptions
    /\ affixes = << >>
    /\ slots = << createEmptySlot >>
    /\ params = RowParams
    /\ lines = NotCompiled
    /\ aggregated = NotAggregated
    /\ rankArgs = NoRankArgs
    /\ rankResult = NotRanked
    /\ keyArgs = NoKeyArgs
    /\ keyResult = NotKeyed
    /\ outcome = NotCalled
    /\ availableItems = << >>
    /\ selectedConfigType = "items"
    /\ selectedItemSlug = ""
    /\ isLoadingAffixes = FALSE
    /\ pendingLoad = NoLoad
    /\ affixesBySlugCache = << >>
    /\ effectQueued = FALSE
    /\ rows = << RowId >>
    /\ storeCalls = << >>
    /\ rowLinesById = (RowId :> << >>)
    /\ finalText = NoFinalText

\* a remove that takes the last row out of the list
rowsAfterRemove_DropsLast(rowList, rowId) ==
    IF rowList = << >> THEN rowList ELSE SubSeq(rowList, 1, Len(rowList) - 1)

\* rows.value after findIndex and splice(rowIndex, 1)
rowsAfterRemove(rowList, rowId) ==
    LET found == { i \in 1..Len(rowList) : rowList[i] = rowId }
    IN IF found = {} THEN rowList
       ELSE LET rowIndex == CHOOSE i \in found : \A j \in found : i <= j
            IN SubSeq(rowList, 1, rowIndex - 1) \o SubSeq(rowList, rowIndex + 1, Len(rowList))

\* the button "Add row": the new row is mounted and its watchEffect emits
\* the lines of a row without a selection
addRow ==
    /\ Len(rows) < MaxRows
    /\ \E id \in RowIds \ Range(rows) :
          /\ rows' = Append(rows, id)
          /\ rowLinesById' = onRowUpdateLines(rowLinesById, id, << >>)
    /\ UNCHANGED <<availableItems, selectedConfigType, selectedItemSlug, isLoadingAffixes,
                   pendingLoad, affixesBySlugCache, effectQueued, finalText, storeCalls>>
    /\ UNCHANGED <<slotVars, compilerVars, rankVars, keyVars, outcome>>

\* the remove event of a row
removeRow(rowId) ==
    /\ rows' = rowsAfterRemove(rows, rowId)
    /\ rowLinesById' = [id \in DOMAIN rowLinesById \ { rowId } |-> rowLinesById[id]]
    /\ UNCHANGED <<availableItems, selectedConfigType, selectedItemSlug, isLoadingAffixes,
                   pendingLoad, affixesBySlugCache, effectQueued, finalText, storeCalls>>
    /\ UNCHANGED <<slotVars, compilerVars, rankVars, keyVars, outcome>>

\* the update-lines event of a mounted row
updateLines(rowId, payloadLines) ==
    /\ rowId \in Range(rows)
    /\ LET normalizedLines == IF payloadLines.t = "array" THEN payloadLines.a ELSE << >>
       IN rowLinesById' = onRowUpdateLines(rowLinesById, rowId, normalizedLines)
    /\ UNCHANGED <<availableItems, selectedConfigType, selectedItemSlug, isLoadingAffixes,
                   pendingLoad, affixesBySlugCache, effectQueued, finalText, rows, storeCalls>>
    /\ UNCHANGED <<slotVars, compilerVars, rankVars, keyVars, outcome>>

ConfiguratorNext ==
    \/ addRow
    \/ \E rowId \in RowIds : removeRow(rowId)
    \/ \E rowId \in RowIds : \E payloadLines \in LinePayloads(rowId) :
          updateLines(rowId, payloadLines)
    \/ generateFinalCall

ConfiguratorSpec == ConfiguratorInit /\ [][ConfiguratorNext]_vars

-----------------------------------------------------------------------------
(* itemsStore.js: getAffixesForSlug and its cache *)

\* Most calls of getAffixesForSlug
MaxStoreCalls == 3

\* the itemSlug arguments
StoreSlugs == { "", "rings", "amulets" }

JsObject(affixesField) == [t |-> "object", affixes |-> affixesField]

\* how the fetch of data/affixes/<itemSlug>.json and response.json() settle:
\* fetch rejects, the status is not ok, json() rejects, or json() resolves
\* with a payload that is null, no object, an object without an affixes
\* array, or an object with one
Responses(itemSlug) ==
    { [kind |-> kind, payload |-> JsUndefined] :
        kind \in { "fetch rejects", "not ok", "json rejects" } } \cup
    { [kind |-> "payload", payload |-> payload] :
        payload \in { JsNull, JsString("affixes"), JsObject(JsUndefined),
                      JsObject(JsString("none")),
                      JsObject(JsArray(<< >>)),
                      JsObject(JsArray(AffixesOfSlug(itemSlug))) } }

\* the response is ok, its body parses, and
\* !payload || typeof payload !== "object" || !Array.isArray(payload.affixes)
\* is false
loadSucceeds(response) ==
    /\ response.kind = "payload"
    /\ response.payload.t = "object"
    /\ response.payload.affixes.t = "array"

\* the call up to its first return or await
startedCall(cache, itemSlug) ==
    IF itemSlug = ""
    THEN [itemSlug |-> itemSlug, state |-> "returned", result |-> << >>, fetched |-> FALSE]
    ELSE IF itemSlug \in DOMAIN cache
    THEN [itemSlug |-> itemSlug, state |-> "returned", result |-> cache[itemSlug],
          fetched |-> FALSE]
    ELSE [itemSlug |-> itemSlug, state |-> "fetching", result |-> << >>, fetched |-> TRUE]

\* the call after its awaits
settledCall(call, response) ==
    IF loadSucceeds(response)
    THEN [call EXCEPT !.state = "returned", !.result = response.payload.affixes.a]
    ELSE [call EXCEPT !.state = "threw"]

\* a cache that keeps an empty list for a load that failed
cacheAfterSettle_CachesFailures(cache, itemSlug, response) ==
    IF loadSucceeds(response)
    THEN (itemSlug :> response.payload.affixes.a) @@ cache
    ELSE (itemSlug :> << >>) @@ cache

\* affixesBySlugCache after the awaits of a call
cacheAfterSettle(cache, itemSlug, response) ==
    IF loadSucceeds(response)
    THEN (itemSlug :> response.payload.affixes.a) @@ cache
    ELSE cache

StoreInit ==
    /\ options = RowOptions
    /\ affixes = << >>
    /\ slots = << createEmptySlot >>
    /\ params = RowParams
    /\ lines = NotCompiled
    /\ aggregated = NotAggregated
    /\ rankArgs = NoRankArgs
    /\ rankResult = NotRanked
    /\ keyArgs = NoKeyArgs
    /\ keyResult = NotKeyed
    /\ outcome = NotCalled
    /\ RowNotMounted

\* a call of getAffixesForSlug runs up to its first return or await
getAffixesForSlug(itemSlug) ==
    /\ Len(storeCalls) < MaxStoreCalls
    /\ storeCalls' = Append(storeCalls, startedCall(affixesBySlugCache, itemSlug))
    /\ UNCHANGED <<availableItems, selectedConfigType, selectedItemSlug, isLoadingAffixes,
                   pendingLoad, affixesBySlugCache, effectQueued, rowLinesById, finalText, rows>>
    /\ UNCHANGED <<slotVars, compilerVars, rankVars, keyVars, outcome>>

\* the fetch and the json() a call awaits settle, and the call runs to its end
fetchSettles(callIndex, response) ==
    /\ callIndex \in 1..Len(storeCalls)
    /\ storeCalls[callIndex].state = "fetching"
    /\ storeCalls' = [storeCalls EXCEPT ![callIndex] = settledCall(@, response)]
    /\ affixesBySlugCache' =
          cacheAfterSettle(affixesBySlugCache, storeCalls[callIndex].itemSlug, response)
    /\ UNCHANGED <<availableItems, selectedConfigType, selectedItemSlug, isLoadingAffixes,
                   pendingLoad, effectQueued, rowLinesById, finalText, rows>>
    /\ UNCHANGED <<slotVars, compilerVars, rankVars, keyVars, outcome>>

StoreNext ==
    \/ \E itemSlug \in StoreSlugs : getAffixesForSlug(itemSlug)
    \/ \E callIndex \in 1..MaxStoreCalls :
          \E response \in Responses(IF callIndex \in 1..Len(storeCalls)
                                    THEN storeCalls[callIndex].itemSlug ELSE "") :
             fetchSettles(callIndex, response)

StoreSpec == StoreInit /\ [][StoreNext]_vars

-----------------------------------------------------------------------------
(* Vocabulary of the properties, stated on the catalog and the slots directly *)

\* the catalog entries whose key is the key held at position pos (1-based)
HeldEntries(pos) ==
    { j \in 1..Len(affixes) : affixKey(affixes[j]) = slots[pos].selectedAffixKey }

HoldsKind(pos, kind) == \E j \in HeldEntries(pos) : affixes[j].kind = kind

\* for every position, the kinds of the catalog entries with the key it holds
HeldKinds ==
    LET keys == catalogKeys
    IN [pos \in 1..Len(slots) |->
          { affixes[j].kind : j \in { j \in 1..Len(affixes) :
                                        keys[j] = slots[pos].selectedAffixKey } }]

\* number of positions, except left out, whose set of kinds has the kind
NumHoldingIn(heldKinds, kind, except) ==
    Cardinality({ pos \in DOMAIN heldKinds : pos # except /\ kind \in heldKinds[pos] })

\* number of slots, position except left out, that hold an affix of the kind
NumHolding(kind, except) == NumHoldingIn(HeldKinds, kind, except)

\* the key is held by a slot with JS index < slotIndex
HeldEarlier(key, slotIndex) ==
    \E i \in 0..(slotIndex - 1) : i < Len(slots) /\ slots[i + 1].selectedAffixKey = key

CatalogKeys == { affixKey(affixes[j]) : j \in 1..Len(affixes) }

-----------------------------------------------------------------------------
(* C1: the slots holding a prefix never outnumber maxPrefixes and the slots *)
(* holding a suffix never outnumber maxSuffixes.                            *)
C1_KindCaps ==
    LET heldKinds == HeldKinds
    IN /\ NumHoldingIn(heldKinds, "prefix", 0) <= maxPrefixesAllowed
       /\ NumHoldingIn(heldKinds, "suffix", 0) <= maxSuffixesAllowed

\* the suffix cap is exhausted and keeps a suffix, free by uniqueness, out of
\* the options of a slot that holds no suffix
C1_Witness ==
    /\ NumHolding("suffix", 0) = maxSuffixesAllowed
    /\ \E i \in SlotIndices : \E j \in 1..Len(affixes) :
          /\ ~HoldsKind(i + 1, "suffix")
          /\ affixes[j].kind = "suffix"
          /\ ~HeldEarlier(affixKey(affixes[j]), i)
          /\ affixKey(affixes[j]) \notin optionKeys(i)

(* C2: a key held by slot i is offered to no later slot j, unless slot j   *)
(* holds that key itself.  The index one past the last slot, whose options  *)
(* canAddSlot computes, is included.                                        *)
C2_EarlierKeyNotOffered ==
    \A j \in 0..Len(slots) :
        LET offered == optionKeys(j)
        IN \A i \in 0..(j - 1) :
              LET K == slots[i + 1].selectedAffixKey
              IN (K # NullKey /\ selectedKeyAt(j) # K) => K \notin offered

\* an earlier slot holds a catalog key that the caps alone would let the
\* later slot take
C2_Witness ==
    \E j \in SlotIndices : \E i \in 0..(j - 1) :
        LET K == slots[i + 1].selectedAffixKey
        IN /\ K \in CatalogKeys
           /\ selectedKeyAt(j) # K
           /\ selectedKeyAt(j) # NullKey
           /\ NumHolding("prefix", j + 1) < maxPrefixesAllowed
           /\ NumHolding("suffix", j + 1) < maxSuffixesAllowed

(* C3: in every step, a position whose selected key differs from the key   *)
(* it had before the step (no key counting as null) has a null tier level   *)
(* after the step.                                                          *)
C3_KeyChangeClearsTier ==
    [][\A pos \in 1..Len(slots') :
          LET before == IF pos <= Len(slots) THEN slots[pos].selectedAffixKey ELSE NullKey
          IN slots'[pos].selectedAffixKey # before => slots'[pos].selectedTierLevel = JsNull]_vars

\* a slot has a key and a tier level, and its options offer another key
C3_Witness ==
    \E i \in SlotIndices :
        /\ slots[i + 1].selectedAffixKey # NullKey
        /\ slots[i + 1].selectedTierLevel # JsNull
        /\ optionKeys(i) \ { slots[i + 1].selectedAffixKey } # {}

(* C4: there is always at least one slot and never more than maxSlots, and *)
(* addSlot on a full collection changes nothing.                            *)
C4_SlotCountBounds ==
    [][/\ Len(slots) \in 1..maxAffixSlots
       /\ Len(slots') \in 1..maxAffixSlots
       /\ (Len(slots) = maxAffixSlots /\ addSlot) => slots' = slots]_vars

\* the collection is full, and the catalog still has a key free for a next slot
C4_Witness ==
    /\ Len(slots) = maxAffixSlots
    /\ \E key \in CatalogKeys : ~HeldEarlier(key, Len(slots))

(* C5: a slot has a tier level only if it has a key and the catalog affix   *)
(* with that key has a tier of that level.                                  *)
C5_TierBelongsToAffix ==
    \A pos \in 1..Len(slots) :
        slots[pos].selectedTierLevel # JsNull =>
            /\ slots[pos].selectedAffixKey # NullKey
            /\ LET held == HeldEntries(pos)
               IN /\ held # {}
                  /\ LET first == CHOOSE j \in held : \A k \in held : j <= k
                     IN \E t \in 1..Len(affixes[first].tiers) :
                           affixes[first].tiers[t].level = slots[pos].selectedTierLevel

\* a slot has a tier level that another affix offered to it does not have
C5_Witness ==
    \E i \in SlotIndices : \E j \in 1..Len(affixes) :
        /\ slots[i + 1].selectedTierLevel # JsNull
        /\ affixKey(affixes[j]) \in optionKeys(i)
        /\ affixKey(affixes[j]) # slots[i + 1].selectedAffixKey
        /\ \A t \in 1..Len(affixes[j].tiers) :
              affixes[j].tiers[t].level # slots[i + 1].selectedTierLevel

(* C6: addSlot appends one empty slot, leaving the existing slots as they   *)
(* are, exactly when the collection is below maxSlots and the options of    *)
(* the would-be new index are not empty; otherwise it changes nothing.      *)
C6_AddSlot ==
    [][addSlot =>
          IF Len(slots) < maxAffixSlots /\ optionKeys(Len(slots)) # {}
          THEN slots' = Append(slots, [selectedAffixKey |-> NullKey,
                                       selectedTierLevel |-> JsNull])
          ELSE slots' = slots]_vars

\* below the slot cap with a non-empty catalog, yet nothing is left to offer
\* to a new slot; the last slot was itself added
C6_Witness ==
    /\ Len(slots) \in 2..(maxAffixSlots - 1)
    /\ Len(affixes) > 0
    /\ optionKeys(Len(slots)) = {}

(* C7: removeSlot(index) on more than one slot removes the slot at index    *)
(* and no other: the slots before it stay as they are and the slots after   *)
(* it move up one position in the same order with their key (their tier     *)
(* level is kept or cleared); on a single slot it changes nothing.          *)
C7_RemoveSlot ==
    [][\A index \in SlotIndices :
          removeSlot(index) =>
             IF Len(slots) > 1
             THEN /\ Len(slots') = Len(slots) - 1
                  /\ \A pos \in 1..index : slots'[pos] = slots[pos]
                  /\ \A pos \in (index + 1)..Len(slots') :
                        /\ slots'[pos].selectedAffixKey = slots[pos + 1].selectedAffixKey
                        /\ slots'[pos].selectedTierLevel \in
                              { slots[pos + 1].selectedTierLevel, JsNull }
             ELSE slots' = slots]_vars

\* three or more slots with pairwise different keys: removing any of them is
\* told apart from removing another
C7_Witness ==
    /\ Len(slots) >= 3
    /\ \A p, q \in 1..Len(slots) :
          p # q => slots[p].selectedAffixKey # slots[q].selectedAffixKey

(* C8: a prefix other than the slot's own is offered only while fewer than  *)
(* maxPrefixes of the other slots hold a prefix, the same for suffixes, and *)
(* an affix of another kind is offered whenever no earlier slot holds it.   *)
C8_CapsFilterOptions ==
    LET heldKinds == HeldKinds
        keys == catalogKeys
    IN \A index \in 0..Len(slots) :
          LET optionsAt == optionKeys(index)
              own == selectedKeyAt(index)
              prefixesLeft == NumHoldingIn(heldKinds, "prefix", index + 1) < maxPrefixesAllowed
              suffixesLeft == NumHoldingIn(heldKinds, "suffix", index + 1) < maxSuffixesAllowed
          IN \A j \in 1..Len(affixes) :
                LET offered == keys[j] \in optionsAt
                IN /\ (affixes[j].kind = "prefix" /\ keys[j] # own /\ offered) => prefixesLeft
                   /\ (affixes[j].kind = "suffix" /\ keys[j] # own /\ offered) => suffixesLeft
                   /\ (affixes[j].kind \notin {"prefix", "suffix"} /\ ~HeldEarlier(keys[j], index))
                         => offered

\* the other slots exhaust the prefix cap for a slot that is still offered an
\* affix of another kind
C8_Witness ==
    \E index \in SlotIndices :
        /\ NumHolding("prefix", index + 1) = maxPrefixesAllowed
        /\ \E j \in 1..Len(affixes) :
              /\ affixes[j].kind = "prefix"
              /\ ~HeldEarlier(affixKey(affixes[j]), index)
        /\ \E j \in 1..Len(affixes) :
              /\ affixes[j].kind # "prefix"
              /\ affixKey(affixes[j]) \in optionKeys(index)

(* C9: the options of a slot that holds a catalog key contain that key.     *)
C9_OwnSelectionOffered ==
    LET keys == CatalogKeys
    IN \A i \in SlotIndices :
          slots[i + 1].selectedAffixKey \in keys =>
              slots[i + 1].selectedAffixKey \in optionKeys(i)

\* a slot holds the key that an earlier slot holds too
C9_Witness ==
    \E j \in SlotIndices : \E i \in 0..(j - 1) :
        /\ slots[j + 1].selectedAffixKey # NullKey
        /\ slots[j + 1].selectedAffixKey = slots[i + 1].selectedAffixKey

-----------------------------------------------------------------------------
(* Vocabulary of the aggregation properties *)

\* the stats of the tier a position has chosen: the first tier of the first
\* catalog entry with the held key whose level is the selected level; no
\* stats without one
StatsOf(keys, pos) ==
    LET held == { j \in 1..Len(affixes) : keys[j] = slots[pos].selectedAffixKey }
    IN IF slots[pos].selectedAffixKey = NullKey \/ held = {} THEN << >>
       ELSE IF slots[pos].selectedTierLevel.t # "number" THEN << >>
       ELSE LET tiers == affixes[CHOOSE j \in held : \A k \in held : j <= k].tiers
                at == { t \in 1..Len(tiers) : tiers[t].level = slots[pos].selectedTierLevel }
            IN IF at = {} THEN << >>
               ELSE tiers[CHOOSE t \in at : \A u \in at : t <= u].stats

\* a StatRange entry is valid when its id is not blank and its bounds are
\* finite numbers
ValidStat(stat) ==
    /\ Trim(stat.id) # ""
    /\ stat.min.t = "number"
    /\ stat.max.t = "number"

\* the stats of the chosen tier of every position from pos on
RECURSIVE StatsFrom(_, _)
StatsFrom(keys, pos) ==
    IF pos > Len(slots) THEN << >>
    ELSE << StatsOf(keys, pos) >> \o StatsFrom(keys, pos + 1)

\* the stats of the chosen tier of every position
ChosenStats == StatsFrom(catalogKeys, 1)

\* the valid entries with the id: pairs of a position and an index in the
\* stats of its chosen tier
Contributions(stats, id) ==
    UNION { { <<pos, k>> : k \in { k \in 1..Len(stats[pos]) :
                                      ValidStat(stats[pos][k]) /\ Trim(stats[pos][k].id) = id } } :
            pos \in DOMAIN stats }

RECURSIVE SumMin(_, _)
SumMin(stats, pairs) ==
    IF pairs = {} THEN 0
    ELSE LET p == CHOOSE p \in pairs : TRUE
         IN stats[p[1]][p[2]].min.n + SumMin(stats, pairs \ {p})

RECURSIVE SumMax(_, _)
SumMax(stats, pairs) ==
    IF pairs = {} THEN 0
    ELSE LET p == CHOOSE p \in pairs : TRUE
         IN stats[p[1]][p[2]].max.n + SumMax(stats, pairs \ {p})

\* the trimmed stat ids of the catalog
CatalogStatIds ==
    UNION { UNION { { Trim(affixes[j].tiers[t].stats[k].id) :
                        k \in 1..Len(affixes[j].tiers[t].stats) } :
                    t \in 1..Len(affixes[j].tiers) } :
            j \in 1..Len(affixes) }

Occurrences(seq, x) == Cardinality({ p \in 1..Len(seq) : seq[p] = x })

-----------------------------------------------------------------------------
(* Claims about the compiled lines: vocabulary *)

\* generateRowPreviewLines was called and returned the comment line and the
\* rule line
TwoLines == lines # NotCompiled /\ Len(lines) = 2

\* the stat ids that have a valid entry in the chosen tier of some slot
CountedIds(stats) == { id \in CatalogStatIds : Contributions(stats, id) # {} }

\* pair p comes before pair q when walking the slots in collection order and
\* the stats of a slot in tier order
Earlier(p, q) == p[1] < q[1] \/ (p[1] = q[1] /\ p[2] < q[2])

\* the first valid entry with the id
FirstPlace(stats, id) ==
    CHOOSE p \in Contributions(stats, id) :
        \A q \in Contributions(stats, id) : p = q \/ Earlier(p, q)

\* the positions at which a condition stands in a list of conditions
PlacesOf(conditions, condition) == { k \in 1..Len(conditions) : conditions[k] = condition }

ActionFlagConditions == { "[" \o flag \o "] == \"true\"" : flag \in AllowedActionFlags }

NumSelected == Cardinality({ pos \in 1..Len(slots) : slots[pos].selectedAffixKey # NullKey })

\* the rule line of the compiled lines starts with the category check and the
\* check of the rarity
RuleLineHasRarity(rarity) ==
    lines[2] = "[Category] == \"" \o Trim(params.selectedItem.pickitCategory.s) \o
               "\" && [Rarity] == \"" \o rarity \o "\" # " \o
               join(afterConditions(slots, params.actionFlag), " && ")

(* C12: the rarity of the before-identify clause is determined by the       *)
(* number n of slots that hold a selection alone: Normal for n = 0, Magic   *)
(* for n = 1 and n = 2, Rare for n >= 3, whatever the kinds of the selected *)
(* affixes and the chosen tiers are.                                        *)
C12_RarityFromCount ==
    TwoLines =>
        /\ NumSelected = 0 => RuleLineHasRarity("Normal")
        /\ NumSelected \in {1, 2} => RuleLineHasRarity("Magic")
        /\ NumSelected >= 3 => RuleLineHasRarity("Rare")

\* three slots hold a selection, one of them a suffix without a tier, and the
\* rule line says Rare
C12_Witness ==
    /\ TwoLines
    /\ NumSelected = 3
    /\ \E pos \in 1..Len(slots) : HoldsKind(pos, "suffix")
    /\ RuleLineHasRarity("Rare")

\* the config type of the call is the string "items"
ItemsConfig == params.configType = JsString("items")

\* the selected item is absent, or its pickitCategory is absent or blank
NoCategory ==
    \/ params.selectedItem = JsNull
    \/ params.selectedItem.pickitCategory.t # "string"
    \/ Trim(params.selectedItem.pickitCategory.s) = ""

\* the item slug of the call is a string that is not empty
HasSlug == params.selectedItemSlug.t = "string" /\ params.selectedItemSlug.s # ""

(* C13 as claimed: for config type "items" and an absent or blank           *)
(* pickitCategory the result is the one fallback line, whatever the slots,  *)
(* the item slug and the action flag are.                                   *)
C13_FallbackForAnySlug ==
    (lines # NotCompiled /\ ItemsConfig /\ NoCategory) =>
        lines = << "[Category] == \"UNKNOWN\" # [StashItem] == \"true\"" >>

(* C13: for config type "items", an item slug that is a non-empty string    *)
(* and an absent or blank pickitCategory the result is the one fallback     *)
(* line, whatever the slots and the action flag are; with an empty or       *)
(* non-string item slug the result is the empty list.                       *)
C13_FallbackLine ==
    (lines # NotCompiled /\ ItemsConfig /\ NoCategory) =>
        /\ HasSlug => lines = << "[Category] == \"UNKNOWN\" # [StashItem] == \"true\"" >>
        /\ ~HasSlug => lines = << >>

\* the fallback line was returned for a blank category, with slots that hold
\* selections and an action flag of the allow-list
C13_Witness ==
    /\ lines = << "[Category] == \"UNKNOWN\" # [StashItem] == \"true\"" >>
    /\ ItemsConfig
    /\ params.selectedItem # JsNull
    /\ params.selectedItem.pickitCategory = JsString("  ")
    /\ params.actionFlag = JsString("Salvage")
    /\ NumSelected >= 2

(* C14 as claimed: the result is the empty list for every config type that *)
(* is not the string "items", a string or not.                              *)
C14_EmptyUnlessItemsString ==
    (lines # NotCompiled /\ params.configType # JsString("items")) => lines = << >>

(* C14: the result is the empty list for every config type that is a string *)
(* other than "items"; a config type that is not a string is taken for      *)
(* "items" and gives the lines that "items" gives.                          *)
C14_EmptyForOtherStrings ==
    lines # NotCompiled =>
        /\ (params.configType.t = "string" /\ params.configType.s # "items") =>
              lines = << >>
        /\ params.configType.t # "string" =>
              lines = generateRowPreviewLines(
                          [params EXCEPT !.configType = JsString("items")], slots)

\* a call with another string as config type, for an item with a slug and a
\* category and slots that hold a selection, returned the empty list
C14_Witness ==
    /\ lines = << >>
    /\ params.configType = JsString("currency")
    /\ HasSlug
    /\ ~NoCategory
    /\ NumSelected >= 1

\* the positions of the character '#' in a line
Separators(line) == { i \in 1..Len(line) : SubSeq(line, i, i) = "#" }

\* the lines are the comment line and one rule line: the category check and
\* a rarity check joined by &&, one '#', and the after-identify clause
CommentAndRule ==
    /\ Len(lines) = 2
    /\ SubSeq(lines[1], 1, 3) = "// "
    /\ Cardinality(Separators(lines[2])) = 1
    /\ LET at == CHOOSE i \in Separators(lines[2]) : TRUE
           category == Trim(params.selectedItem.pickitCategory.s)
       IN /\ SubSeq(lines[2], 1, at - 2) \in
                { "[Category] == \"" \o category \o "\" && [Rarity] == \"" \o rarity \o "\"" :
                     rarity \in {"Normal", "Magic", "Rare"} }
          /\ SubSeq(lines[2], at - 1, at + 1) = " # "
          /\ SubSeq(lines[2], at + 2, Len(lines[2])) =
                join(afterConditions(slots, params.actionFlag), " && ")

(* C15 as claimed: for config type "items" and a non-blank pickitCategory   *)
(* the result is the comment line and the rule line, whatever the other     *)
(* inputs are.                                                              *)
C15_TwoLinesForAnySlug ==
    (lines # NotCompiled /\ ItemsConfig /\ ~NoCategory) => CommentAndRule

(* C15: for config type "items", an item slug that is a non-empty string    *)
(* and a non-blank pickitCategory the result is, for every slot collection, *)
(* exactly two lines: the comment line, then one rule line made of the      *)
(* before-identify clause (category check && rarity check), a single '#'    *)
(* and the after-identify clause; with an empty or non-string item slug the *)
(* result is the empty list.                                                *)
C15_CommentAndRuleLine ==
    (lines # NotCompiled /\ ItemsConfig /\ ~NoCategory) =>
        /\ HasSlug => CommentAndRule
        /\ ~HasSlug => lines = << >>

\* two lines were returned for slots of which one holds a tier with stats,
\* for a category stored with blanks around it
C15_Witness ==
    /\ lines # NotCompiled
    /\ ItemsConfig
    /\ HasSlug
    /\ params.selectedItem # JsNull
    /\ params.selectedItem.pickitCategory = JsString(" Ring ")
    /\ CountedIds(ChosenStats) # {}
    /\ CommentAndRule

\* the end of a line: its last n characters
Suffix(line, n) == SubSeq(line, Len(line) - n + 1, Len(line))

\* the rule line ends with the condition of the flag
RuleLineEndsWithFlag(flag) ==
    LET condition == " && [" \o flag \o "] == \"true\""
        alone == " # [" \o flag \o "] == \"true\""
    IN \/ Suffix(lines[2], Len(condition)) = condition
       \/ Suffix(lines[2], Len(alone)) = alone

(* C16: the action flag of the compiled rule line is one of StashItem,      *)
(* StashUnid, Salvage and IgnoreRitual: the trimmed input when that is one  *)
(* of the four, and StashItem for every other input (empty, another string, *)
(* not a string).                                                           *)
C16_ActionFlagAllowed ==
    TwoLines =>
        /\ \E flag \in {"StashItem", "StashUnid", "Salvage", "IgnoreRitual"} :
              RuleLineEndsWithFlag(flag)
        /\ IF /\ params.actionFlag.t = "string"
              /\ Trim(params.actionFlag.s) \in {"StashItem", "StashUnid", "Salvage", "IgnoreRitual"}
           THEN RuleLineEndsWithFlag(Trim(params.actionFlag.s))
           ELSE RuleLineEndsWithFlag("StashItem")

\* a flag of the list given with blanks around it was written trimmed, after
\* stat conditions
C16_Witness ==
    /\ TwoLines
    /\ params.actionFlag = JsString(" StashUnid ")
    /\ CountedIds(ChosenStats) # {}
    /\ RuleLineEndsWithFlag("StashUnid")

-----------------------------------------------------------------------------
(* Claims about the tier ranker *)

\* tierIndexFromBottom was called
Ranked == rankResult # NotRanked

\* the tiers argument is a list
IsList == rankArgs.tiers.t = "array"

\* the positions of the list whose entry is a tier with a finite level
FiniteAt ==
    { i \in 1..Len(rankArgs.tiers.a) :
         /\ rankArgs.tiers.a[i] # JsNull
         /\ rankArgs.tiers.a[i].level.t = "number" }

\* the distinct finite levels of the list
DistinctLevels == { rankArgs.tiers.a[i].level.n : i \in FiniteAt }

\* the level asked for is a finite number that a tier of the list has
LevelPresent ==
    /\ IsList
    /\ rankArgs.tierLevel.t = "number"
    /\ rankArgs.tierLevel.n \in DistinctLevels

(* C17: the rank of a level present in the list is the number of distinct   *)
(* finite levels minus the index of the level in their ascending order,     *)
(* that is the number of distinct finite levels that are not below it: 1    *)
(* for the highest level, the number of distinct levels for the lowest,     *)
(* also when two tiers of the list share a level.                           *)
C17_RankAmongDistinctLevels ==
    (Ranked /\ LevelPresent) =>
        rankResult = JsNum(Cardinality({ l \in DistinctLevels : l >= rankArgs.tierLevel.n }))

(* C18: the result is "?" exactly when the tier list is empty or not a      *)
(* list, the level is not a finite number, or no tier of the list has the   *)
(* level; in every other case it is an integer from 1 to the length of the  *)
(* list.                                                                    *)
C18_UnresolvableExactly ==
    Ranked =>
        /\ rankResult = JsString("?") <=> ~LevelPresent
        /\ LevelPresent =>
              /\ rankResult.t = "number"
              /\ rankResult.n \in 1..Len(rankArgs.tiers.a)

\* "?" was returned for a level that no tier of a list of tiers with finite
\* levels has: the list holds it as a numeric string only
C18_Witness ==
    /\ rankResult = JsString("?")
    /\ IsList
    /\ rankArgs.tierLevel = JsNum(10)
    /\ Cardinality(DistinctLevels) = 2
    /\ \E i \in 1..Len(rankArgs.tiers.a) :
          /\ rankArgs.tiers.a[i] # JsNull
          /\ rankArgs.tiers.a[i].level = JsNumStr(10)

-----------------------------------------------------------------------------
(* Claims about errors *)

(* C19: no call of an operation (key, lookup, addSlot, removeSlot,          *)
(* resetAll, optionsFor, canAddSlot, addBlockedReason, aggregate, compile)  *)
(* raises an error, also on a catalog that holds null entries: every call   *)
(* returns a value.                                                         *)
C19_NoOperationThrows == outcome # TypeError

-----------------------------------------------------------------------------
(* Claims about the lines the configurator reads *)

(* C20: whenever generateFinal reads the stored lines of the row, they are  *)
(* the lines that compile returns for the row's current config type, item   *)
(* selection and slots: the text it makes is the text of those lines, in    *)
(* every interleaving of selections, catalog loads and generateFinal.       *)
C20_FinalReadsCurrentLines ==
    [][generateFinal => finalText' = finalTextOf(computeCurrentRowLines)]_vars

-----------------------------------------------------------------------------
(* Vocabulary of the add-blocked reason *)

SlotCapMessage == "Max " \o ToString(maxAffixSlots) \o " affixes."
NoAffixesMessage == "No affixes available."
CapsMessage ==
    "Prefix/Suffix caps reached (" \o ToString(maxPrefixesAllowed) \o "/" \o
    ToString(maxSuffixesAllowed) \o ")."
GenericMessage == "No valid affixes left to add."

SlotCapReached == Len(slots) >= maxAffixSlots
CatalogEmpty == affixes = << >>
BothCapsReached ==
    /\ NumHolding("prefix", 0) >= maxPrefixesAllowed
    /\ NumHolding("suffix", 0) >= maxSuffixesAllowed

(* C21: whenever canAddSlot is false, the reason is the slot-cap message if *)
(* the slot count has reached maxSlots; else the no-affixes message if the  *)
(* catalog is empty; else the caps message if the prefix count and the      *)
(* suffix count have reached their caps; else the generic message.          *)
C21_ReasonPriority ==
    ~canAddSlot =>
        addDisabledReason =
            IF SlotCapReached THEN SlotCapMessage
            ELSE IF CatalogEmpty THEN NoAffixesMessage
            ELSE IF BothCapsReached THEN CapsMessage
            ELSE GenericMessage

\* no slot can be added, the slot cap and both kind caps are reached at once,
\* and the slots hold a prefix and a suffix
C21_Witness ==
    /\ ~canAddSlot
    /\ SlotCapReached
    /\ BothCapsReached
    /\ NumHolding("prefix", 0) > 0
    /\ NumHolding("suffix", 0) > 0

-----------------------------------------------------------------------------
(* Vocabulary of the aggregation as a function *)

\* the tiers of the first catalog entry with the key the position holds
TiersHeldAt(pos) ==
    LET held == HeldEntries(pos)
    IN IF held = {} THEN << >>
       ELSE affixes[CHOOSE j \in held : \A k \in held : j <= k].tiers

\* the position has no valid selection of an affix and a tier: no key, no
\* finite tier level, a key that is not in the catalog, or no tier of the level
NoValidSelection(pos) ==
    \/ slots[pos].selectedAffixKey = NullKey
    \/ slots[pos].selectedTierLevel.t # "number"
    \/ HeldEntries(pos) = {}
    \/ \A t \in 1..Len(TiersHeldAt(pos)) :
           TiersHeldAt(pos)[t].level # slots[pos].selectedTierLevel

\* the stats of the tier the position has chosen
ChosenTierStats(pos) ==
    LET tiers == TiersHeldAt(pos)
        at == { t \in 1..Len(tiers) : tiers[t].level = slots[pos].selectedTierLevel }
    IN tiers[CHOOSE t \in at : \A u \in at : t <= u].stats

\* the ids, trimmed, that the stats of a tier carry
IdsOf(stats) ==
    { Trim(stats[k].id) : k \in { k \in 1..Len(stats) : "id" \in DOMAIN stats[k] } }

(* C22: the aggregation returns one list per slot, in slot order: the list  *)
(* of a slot holds ids of the tier that slot chose only, and a slot without *)
(* a valid selection of an affix and a tier has the empty list at its       *)
(* position and adds nothing to the totals.                                 *)
C22_OneListPerSlot ==
    aggregated # NotAggregated =>
        /\ Len(aggregated.orderedSlots) = Len(slots)
        /\ \A pos \in 1..Len(slots) :
              IF NoValidSelection(pos)
              THEN /\ aggregated.orderedSlots[pos] = << >>
                   /\ aggregated.totalsById =
                         collectOrderedStatsAndTotals(
                             [slots EXCEPT ![pos] = createEmptySlot]).totalsById
              ELSE Range(aggregated.orderedSlots[pos]) \subseteq IdsOf(ChosenTierStats(pos))
        /\ (\A pos \in 1..Len(slots) : NoValidSelection(pos)) =>
              DOMAIN aggregated.totalsById = {}

\* two slots were aggregated: the first has a level its affix has no tier
\* of, the second a valid selection that counts
C22_Witness ==
    /\ aggregated # NotAggregated
    /\ Len(slots) = 2
    /\ HeldEntries(1) # {} /\ slots[1].selectedTierLevel.t = "number" /\ NoValidSelection(1)
    /\ aggregated.orderedSlots[1] = << >>
    /\ ~NoValidSelection(2) /\ aggregated.orderedSlots[2] # << >>

\* a StatRange entry is well formed: it has an id that is not blank, and its
\* min and max are finite numbers
WellFormed(stat) ==
    /\ "id" \in DOMAIN stat
    /\ Trim(stat.id) # ""
    /\ stat.min.t = "number"
    /\ stat.max.t = "number"

\* the stats of the tier a position has chosen, none without a valid selection
StatsChosenAt(pos) == IF NoValidSelection(pos) THEN << >> ELSE ChosenTierStats(pos)

\* the trimmed ids of the entries of a list of stats
RECURSIVE TrimmedIds(_)
TrimmedIds(stats) ==
    IF stats = << >> THEN << >>
    ELSE << Trim(Head(stats).id) >> \o TrimmedIds(Tail(stats))

\* the well-formed entries of the chosen tiers from position pos on
RECURSIVE WellFormedFrom(_)
WellFormedFrom(pos) ==
    IF pos > Len(slots) THEN << >>
    ELSE SelectSeq(StatsChosenAt(pos), WellFormed) \o WellFormedFrom(pos + 1)

\* the sum of the min (the max) of the entries with the id
RECURSIVE SumOfMin(_, _)
SumOfMin(stats, id) ==
    IF stats = << >> THEN 0
    ELSE (IF Trim(Head(stats).id) = id THEN Head(stats).min.n ELSE 0) + SumOfMin(Tail(stats), id)

RECURSIVE SumOfMax(_, _)
SumOfMax(stats, id) ==
    IF stats = << >> THEN 0
    ELSE (IF Trim(Head(stats).id) = id THEN Head(stats).max.n ELSE 0) + SumOfMax(Tail(stats), id)

(* C23: the list of a slot is the ids of the well-formed entries of its     *)
(* chosen tier, in their order, and the total of an id is the sum over the  *)
(* well-formed entries with that id: an entry whose id is missing or blank, *)
(* or whose min or max is not a finite number, is in no list and no total.  *)
C23_MalformedSkipped ==
    aggregated # NotAggregated =>
        LET wellFormed == WellFormedFrom(1)
            ids == Range(TrimmedIds(wellFormed))
        IN /\ \A pos \in 1..Len(slots) :
                 aggregated.orderedSlots[pos] =
                     TrimmedIds(SelectSeq(StatsChosenAt(pos), WellFormed))
           /\ DOMAIN aggregated.totalsById = ids
           /\ \A id \in ids :
                 /\ aggregated.totalsById[id].min = SumOfMin(wellFormed, id)
                 /\ aggregated.totalsById[id].max = SumOfMax(wellFormed, id)

-----------------------------------------------------------------------------
(* Vocabulary of the comment line *)

\* the position holds a key that resolves to a catalog affix
Resolves(pos) == slots[pos].selectedAffixKey # NullKey /\ HeldEntries(pos) # {}

\* the affix the key of the position resolves to
ResolvedAffix(pos) ==
    LET held == HeldEntries(pos)
    IN affixes[CHOOSE j \in held : \A k \in held : j <= k]

\* the position has chosen a tier: its level is the level of a tier of its affix
HasChosenTier(pos) ==
    /\ slots[pos].selectedTierLevel.t = "number"
    /\ \E t \in 1..Len(TiersHeldAt(pos)) :
          TiersHeldAt(pos)[t].level = slots[pos].selectedTierLevel

\* the rank of a level among the distinct finite levels of the tiers, the
\* highest level having rank 1
RankAmongLevels(tiers, level) ==
    1 + Cardinality({ n \in { tiers[t].level.n :
                                t \in { t \in 1..Len(tiers) : tiers[t].level.t = "number" } } :
                        n > level.n })

\* what the comment line says of a resolved position with a chosen tier or
\* with no tier level
DescriptionOf(pos) ==
    ResolvedAffix(pos).template \o " of tier " \o
    (IF slots[pos].selectedTierLevel = JsNull THEN "any tier"
     ELSE "T" \o ToString(RankAmongLevels(TiersHeldAt(pos), slots[pos].selectedTierLevel)))

\* the descriptions of the resolved positions from pos on, in slot order
RECURSIVE DescriptionsFrom(_)
DescriptionsFrom(pos) ==
    IF pos > Len(slots) THEN << >>
    ELSE (IF Resolves(pos) THEN << DescriptionOf(pos) >> ELSE << >>) \o DescriptionsFrom(pos + 1)

\* the clause of the comment line that names the selected affixes
AffixClause ==
    IF \E pos \in 1..Len(slots) : Resolves(pos)
    THEN " if they have at least " \o join(DescriptionsFrom(1), ", ")
    ELSE ""

\* every resolved position has chosen a tier or has a null tier level
TierChosenOrNull ==
    \A pos \in 1..Len(slots) :
        Resolves(pos) => (slots[pos].selectedTierLevel = JsNull \/ HasChosenTier(pos))

\* the comment lines for the category and the flag of the parameters that end
\* with the clause
CommentLinesWith(clause) ==
    { "// Picks up " \o params.selectedItem.pickitCategory.s \o " of rarity " \o rarity \o
      " and " \o resolvePickitActionFlag(params.actionFlag) \o clause :
          rarity \in { "Normal", "Magic", "Rare" } }

(* C24: the comment line names, in slot order, every slot whose key         *)
(* resolves to a catalog affix, with the template of the affix and the      *)
(* label T<rank> of its chosen tier, or "any tier" when its tier level is   *)
(* null; with no such slot the line has no clause.                          *)
C24_CommentNamesAffixes ==
    (TwoLines /\ TierChosenOrNull) => lines[1] \in CommentLinesWith(AffixClause)

-----------------------------------------------------------------------------
(* Vocabulary of the affix key *)

Sentinel == "||||"

\* the field of an object as the key takes it: the empty string when the
\* field is not a string
FieldOrEmpty(object, name) == IF name \in DOMAIN object THEN object[name] ELSE ""

\* the five fields of an object joined by the separator
FieldsJoined(object) ==
    join(<< FieldOrEmpty(object, "kind"), FieldOrEmpty(object, "domain"),
            FieldOrEmpty(object, "family_key"), FieldOrEmpty(object, "identifier"),
            FieldOrEmpty(object, "template") >>, "|")

(* C25: key returns on every input; for an input that is not an object it   *)
(* returns the sentinel "||||", and for an object the five fields joined by *)
(* '|' with the empty string in place of a field that is not a string.      *)
C25_KeyTotal ==
    keyResult # NotKeyed =>
        /\ outcome = Returned
        /\ \A i \in 1..2 :
              keyResult[i] = IF keyArgs[i] \in KeyPrimitives THEN Sentinel
                             ELSE FieldsJoined(keyArgs[i])

\* the key was taken of a number and of an object that has two of its fields
\* as strings and the others not
C25_Witness ==
    /\ keyResult # NotKeyed
    /\ keyArgs[1] = JsNum(1)
    /\ keyArgs[2] \notin KeyPrimitives
    /\ DOMAIN keyArgs[2] = { "kind", "template" }
    /\ keyResult[2] # Sentinel

-----------------------------------------------------------------------------
(* Vocabulary of the changes of the item selection of a row *)

\* the load of a catalog that the row awaited settles in the step
LoadCompletes == pendingLoad # NoLoad /\ pendingLoad' = NoLoad

\* another item is selected whose catalog is cached: the load settles in the
\* step that selects it
CachedLoadCompletes ==
    /\ selectedItemSlug' # selectedItemSlug
    /\ selectedItemSlug' \in DOMAIN affixesBySlugCache

SlugCleared == selectedItemSlug # "" /\ selectedItemSlug' = ""

LeavesItems == selectedConfigType = "items" /\ selectedConfigType' # "items"

(* C26: every step that completes a catalog load (resolved or rejected),    *)
(* clears the item slug, or switches the config type away from items leaves *)
(* the slots as exactly one slot with null key and null tier level.         *)
C26_SelectionChangeResets ==
    [][(LoadCompletes \/ CachedLoadCompletes \/ SlugCleared \/ LeavesItems) =>
          slots' = << [selectedAffixKey |-> NullKey, selectedTierLevel |-> JsNull] >>]_vars

\* a catalog load is pending while the row has two slots and the first holds
\* an affix and a tier chosen for the item selected before
C26_Witness ==
    /\ pendingLoad # NoLoad
    /\ Len(slots) = 2
    /\ slots[1].selectedAffixKey # NullKey
    /\ slots[1].selectedTierLevel # JsNull

-----------------------------------------------------------------------------
\* what a call of the compiler or of the aggregation reads is what it was
\* before the step
InputsKept ==
    /\ slots' = slots
    /\ affixes' = affixes
    /\ params' = params
    /\ options' = options

-----------------------------------------------------------------------------
(* C28: removeSlot(index) on more than one slot leaves the key and the tier *)
(* level of every remaining slot as they were, the run of the tier-reset    *)
(* watcher included: the slots before index stay in place and the slots     *)
(* after it move up one position with their key and their tier level.       *)
C28_RemoveKeepsTiers ==
    [][\A index \in SlotIndices :
          (removeSlot(index) /\ Len(slots) > 1) =>
              /\ Len(slots') = Len(slots) - 1
              /\ \A pos \in 1..index : slots'[pos] = slots[pos]
              /\ \A pos \in (index + 1)..Len(slots') : slots'[pos] = slots[pos + 1]]_vars

-----------------------------------------------------------------------------
(* C29, as stated: no two distinct slots hold the same non-null key.        *)
C29_KeysUnique ==
    \A p, q \in 1..Len(slots) :
        (p # q /\ slots[p].selectedAffixKey # NullKey) =>
            slots[p].selectedAffixKey # slots[q].selectedAffixKey

\* the step is a selection that changes the key of the slot at JS index
\* slotIndex: the slots stay as many and the slot holds another key than
\* before (addSlot, removeSlot and resetSlots change the number of slots or
\* leave every key as it is)
KeyChangedAt(slotIndex) ==
    /\ Len(slots') = Len(slots)
    /\ slots'[slotIndex + 1].selectedAffixKey # slots[slotIndex + 1].selectedAffixKey

(* C29: a selection that changes the key of a slot gives it no key that a   *)
(* slot with a smaller index holds at that time; a slot with a smaller      *)
(* index may pick afterwards the key that a later slot holds.               *)
C29_NoPickOfEarlierKey ==
    [][\A slotIndex \in SlotIndices :
          (KeyChangedAt(slotIndex) /\ slots'[slotIndex + 1].selectedAffixKey # NullKey)
          => ~HeldEarlier(slots'[slotIndex + 1].selectedAffixKey, slotIndex)]_vars

\* a slot holds a key picked while an earlier slot held another key that the
\* catalog has, and a second slot holds the key of the first
C29_Witness ==
    /\ Len(slots) >= 3
    /\ slots[1].selectedAffixKey # NullKey
    /\ slots[2].selectedAffixKey \notin { NullKey, slots[1].selectedAffixKey }
    /\ slots[3].selectedAffixKey = slots[1].selectedAffixKey

-----------------------------------------------------------------------------
\* the caps let the slot at JS index slotIndex take an affix of the kind: the
\* kind has no cap, or fewer of the other slots than the cap hold that kind
CapsAllow(kind, slotIndex) ==
    /\ kind = "prefix" => NumHolding("prefix", slotIndex + 1) < maxPrefixesAllowed
    /\ kind = "suffix" => NumHolding("suffix", slotIndex + 1) < maxSuffixesAllowed

(* C30: the uniqueness exclusion of the options of a slot looks at the      *)
(* slots with a smaller index only: in every state, whatever selections led *)
(* to it, a key that the caps allow and that no earlier slot holds is       *)
(* offered to the slot, also when later slots hold it; so a key that an     *)
(* earlier slot held and gave up is offered again to the later slots,       *)
(* subject to the caps.                                                     *)
C30_OneDirectional ==
    \A slotIndex \in SlotIndices : \A j \in 1..Len(affixes) :
        (/\ ~HeldEarlier(affixKey(affixes[j]), slotIndex)
         /\ CapsAllow(affixes[j].kind, slotIndex))
        => affixKey(affixes[j]) \in optionKeys(slotIndex)

\* the third slot holds a key that the first slot does not hold and is
\* offered, the second slot is not offered the key that the first holds, and
\* the second and the third slot are offered the other key of the catalog,
\* which no slot before them holds
C30_Witness ==
    /\ Len(slots) >= 3
    /\ slots[1].selectedAffixKey # NullKey
    /\ slots[2].selectedAffixKey = NullKey
    /\ slots[3].selectedAffixKey \notin { NullKey, slots[1].selectedAffixKey }
    /\ slots[3].selectedAffixKey \in optionKeys(0)
    /\ slots[1].selectedAffixKey \notin optionKeys(1)
    /\ slots[3].selectedAffixKey \in optionKeys(1)

-----------------------------------------------------------------------------
(* C31: whenever no catalog load is in flight, the catalog the row has      *)
(* loaded is the catalog of the item slug it has selected (or empty, when   *)
(* the load of that slug failed), and it is empty when no slug is selected: *)
(* a load that settles after its selection was cleared installs nothing.    *)
C31_CatalogOfSelectedSlug ==
    pendingLoad = NoLoad =>
        IF selectedItemSlug = ""
        THEN affixes = << >>
        ELSE affixes \in { AffixesOfSlug(selectedItemSlug), << >> }

-----------------------------------------------------------------------------
\* the string holds the separator of the key
RECURSIVE HasSeparator(_)
HasSeparator(string) ==
    IF Len(string) = 0 THEN FALSE
    ELSE SubSeq(string, 1, 1) = "|" \/ HasSeparator(SubSeq(string, 2, Len(string)))

\* an affix definition of the claim: an object whose kind, domain, family
\* key and template are strings, whose identifier is a string or absent,
\* and none of whose fields holds the separator
SeparatorFree(object) ==
    /\ object \notin KeyPrimitives
    /\ { "kind", "domain", "family_key", "template" } \subseteq DOMAIN object
    /\ \A name \in DOMAIN object : ~HasSeparator(object[name])

\* the two objects agree on the five fields, an absent field counting as the
\* empty string
AgreeOnFields(a, b) ==
    \A name \in KeyFieldNames : FieldOrEmpty(a, name) = FieldOrEmpty(b, name)

(* C32: for two affix definitions whose five fields are strings without the *)
(* separator '|' (an absent identifier counting as the empty string), the   *)
(* keys are equal if and only if the definitions agree on all five fields.  *)
C32_KeyInjective ==
    (/\ keyResult # NotKeyed
     /\ SeparatorFree(keyArgs[1])
     /\ SeparatorFree(keyArgs[2]))
    => ((keyResult[1] = keyResult[2]) <=> AgreeOnFields(keyArgs[1], keyArgs[2]))

\* the keys were taken of two definitions without separators that differ in
\* the identifier alone, absent in the first and "a" in the second, and the
\* keys differ
C32_Witness ==
    /\ keyResult # NotKeyed
    /\ SeparatorFree(keyArgs[1])
    /\ SeparatorFree(keyArgs[2])
    /\ "identifier" \notin DOMAIN keyArgs[1]
    /\ "identifier" \in DOMAIN keyArgs[2]
    /\ keyArgs[2]["identifier"] = "a"
    /\ \A name \in KeyFieldNames \ { "identifier" } :
          keyArgs[1][name] = keyArgs[2][name]
    /\ keyResult[1] # keyResult[2]

-----------------------------------------------------------------------------
\* the number of tiers of the list that have a finite level
NumFiniteTiers == Cardinality(FiniteAt)

(* C33: of two levels that both occur in a tier list, the lower one has the *)
(* greater rank, and every rank that is resolved lies between 1 and the     *)
(* number of tiers of the list with a finite level.                         *)
C33_RankOrderAndRange ==
    [][/\ (/\ Ranked /\ Ranked'
           /\ rankArgs'.tiers = rankArgs.tiers
           /\ LevelPresent /\ LevelPresent'
           /\ rankArgs.tierLevel.n < rankArgs'.tierLevel.n)
          => (/\ rankResult.t = "number"
              /\ rankResult'.t = "number"
              /\ rankResult.n > rankResult'.n)
       /\ (/\ Ranked /\ Ranked'
           /\ rankArgs'.tiers = rankArgs.tiers
           /\ LevelPresent /\ LevelPresent'
           /\ rankArgs.tierLevel.n > rankArgs'.tierLevel.n)
          => (/\ rankResult.t = "number"
              /\ rankResult'.t = "number"
              /\ rankResult.n < rankResult'.n)
       /\ (Ranked' /\ rankResult'.t = "number")
          => (IsList' /\ rankResult'.n \in 1..NumFiniteTiers')]_vars

\* the lowest level of a list of three tiers with finite levels, two of
\* which share a level, was ranked: its rank is 3, the number of tiers with
\* a finite level
C33_Witness ==
    /\ Ranked
    /\ LevelPresent
    /\ NumFiniteTiers = 3
    /\ Cardinality(DistinctLevels) = 2
    /\ \A l \in DistinctLevels : rankArgs.tierLevel.n <= l
    /\ rankResult = JsNum(3)

-----------------------------------------------------------------------------
(* C34: the totals and the order of the slots *)

\* a call of collectOrderedStatsAndTotals follows a call on the same slots,
\* which were in any order then
CalledOnReordering ==
    /\ aggregated # NotAggregated
    /\ aggregated' # NotAggregated
    /\ slots' = slots

\* the lists of ids are the lists of the earlier call, in another order
ListsFollowSlots ==
    aggregated'.orderedSlots \in
        Reorderings(aggregated.orderedSlots) \cup { aggregated.orderedSlots }

\* every total lies where the integers are Numbers without a gap, so that
\* no sum on the way to it was rounded
TotalsExact(result) ==
    \A id \in DOMAIN result.totalsById :
        /\ result.totalsById[id].min \in 0..(Pow2(SignificandBits) - 1)
        /\ result.totalsById[id].max \in 0..(Pow2(SignificandBits) - 1)

-----------------------------------------------------------------------------
(* C35: the final text and the rows *)

\* the lines the map holds for the row, none when it holds no entry
StoredLines(rowId) ==
    IF rowId \in DOMAIN rowLinesById THEN rowLinesById[rowId] ELSE << >>

NotBlank(line) == line \notin { "", "  " }

\* the stored lines that are not blank, of the rows from position k of the
\* list on, in the order of the list
RECURSIVE LinesInRowOrder(_)
LinesInRowOrder(k) ==
    IF k > Len(rows) THEN << >>
    ELSE SelectSeq(StoredLines(rows[k]), NotBlank) \o LinesInRowOrder(k + 1)

\* the lines the rows of the list can emit
LinesOfListedRows ==
    { LineOf(rowId, text) : rowId \in Range(rows), text \in { "x", "y" } }

\* C35: a step that leaves the rows and the stored lines alone and changes
\* the final text is a run of generateFinal; the text it makes is the stored
\* lines that are not blank, of the rows of the list in the order of the list,
\* joined by line feeds, and every one of these lines is a line of a row of
\* the list, none of a row that was removed.
C35_FinalIsStoredLinesOfRows ==
    [][(rows' = rows /\ rowLinesById' = rowLinesById) =>
          /\ finalText' = join(LinesInRowOrder(1), "\n")
          /\ Range(LinesInRowOrder(1)) \subseteq LinesOfListedRows]_vars

\* the first row was removed and a third row added; the final text holds the
\* lines of the two rows of the list in their order, without the blank and the
\* empty line they stored
C35_Witness ==
    /\ rows = << "row-2", "row-3" >>
    /\ rowLinesById["row-2"] = << "  ", "row-2: y" >>
    /\ rowLinesById["row-3"] = << "row-3: x", "", "row-3: y" >>
    /\ finalText = "row-2: y\nrow-3: x\nrow-3: y"

-----------------------------------------------------------------------------
(* C36: the cache of getAffixesForSlug *)

\* a call of getAffixesForSlug starts in the step
CallStarts == Len(storeCalls') = Len(storeCalls) + 1

StartedCall == storeCalls'[Len(storeCalls')]

\* the calls whose awaits settle in the step
SettlingCalls ==
    { callIndex \in 1..Len(storeCalls) :
        /\ storeCalls[callIndex].state = "fetching"
        /\ storeCalls'[callIndex].state # "fetching" }

\* the cache holds nothing for the empty slug, and what it holds for a slug
\* is what a call for the slug that fetched returned
OnlySuccessfulLoads(cache, calls) ==
    /\ "" \notin DOMAIN cache
    /\ \A itemSlug \in DOMAIN cache :
          \E callIndex \in 1..Len(calls) :
             /\ calls[callIndex].itemSlug = itemSlug
             /\ calls[callIndex].state = "returned"
             /\ calls[callIndex].fetched
             /\ calls[callIndex].result = cache[itemSlug]

\* C36: a call that ends with an error leaves the cache as it is, and a call
\* that fetched and returns leaves its result in the cache; a call for a
\* slug the cache does not hold fetches; a call for a slug the cache holds
\* returns the cached catalog and fetches nothing; a call for the empty slug
\* returns an empty list and fetches nothing; a call that starts leaves the
\* cache alone, a slug never leaves the cache, and the cache holds successful
\* loads only.
C36_CacheOfSuccessfulLoads ==
    [][/\ \A callIndex \in SettlingCalls :
             IF storeCalls'[callIndex].state = "threw"
             THEN affixesBySlugCache' = affixesBySlugCache
             ELSE /\ storeCalls'[callIndex].state = "returned"
                  /\ storeCalls[callIndex].itemSlug \in DOMAIN affixesBySlugCache'
                  /\ affixesBySlugCache'[storeCalls[callIndex].itemSlug] =
                        storeCalls'[callIndex].result
       /\ CallStarts =>
             /\ affixesBySlugCache' = affixesBySlugCache
             /\ IF StartedCall.itemSlug = ""
                THEN /\ StartedCall.state = "returned"
                     /\ StartedCall.result = << >>
                     /\ ~StartedCall.fetched
                ELSE IF StartedCall.itemSlug \in DOMAIN affixesBySlugCache
                THEN /\ StartedCall.state = "returned"
                     /\ StartedCall.result = affixesBySlugCache[StartedCall.itemSlug]
                     /\ ~StartedCall.fetched
                ELSE /\ StartedCall.state = "fetching"
                     /\ StartedCall.fetched
       /\ DOMAIN affixesBySlugCache \subseteq DOMAIN affixesBySlugCache'
       /\ OnlySuccessfulLoads(affixesBySlugCache', storeCalls')]_vars

\* a call for rings fetched and ended with an error, the next call for rings
\* fetched again and returned the catalog, and the call after it returned the
\* cached catalog without a fetch
C36_Witness ==
    /\ Len(storeCalls) = 3
    /\ \A callIndex \in 1..3 : storeCalls[callIndex].itemSlug = "rings"
    /\ storeCalls[1].state = "threw" /\ storeCalls[1].fetched
    /\ storeCalls[2].state = "returned" /\ storeCalls[2].fetched
    /\ storeCalls[2].result = AffixesOfSlug("rings")
    /\ storeCalls[3].state = "returned" /\ ~storeCalls[3].fetched
    /\ storeCalls[3].result = AffixesOfSlug("rings")
    /\ affixesBySlugCache = ("rings" :> AffixesOfSlug("rings"))

====
